---- MODULE Spec2Model ----
(***************************************************************************)
(* Latency core of the chat-serving layer: tiered cache, connection pool,  *)
(* prediction engine, parallel dispatcher and the per-turn cascade.         *)
(* Each component has its own specification over the shared variables.     *)
(* Times are in milliseconds, as in the source (Date.now()).                *)
(***************************************************************************)
EXTENDS Integers, Sequences, FiniteSets, TLC

VARIABLES
  now,          \* Date.now()
  memoryCache,  \* CacheService.memoryCache: a Map, kept in insertion order
  redisStore,   \* the persistent tier, keys cache:<key>
  preGenerated, \* CacheService.preGenerated: pattern -> ranked candidates
  pending,      \* a get/batchGet suspended on the persistent tier
  lastSet,      \* history: the last set() of each key
  lastLookup,   \* history: the last finished get/batchGet
  nWrites,      \* number of set() calls so far
  nLookups,     \* number of get/batchGet calls so far
  pool,         \* ConnectionPool.pools[key]: the connections of one pair
  metrics,      \* ConnectionPool.metrics[key]
  callers,      \* the tasks that call getConnection / executeRequest
  zombies,      \* check intervals left running by timed-out waiters
  nextConnId,   \* connections created so far
  nAcquires,    \* getConnection calls so far
  unconfigured, \* what the pool holds and has done for a pair without configuration
  models,       \* PredictionService.models, in insertion order
  nLearn,       \* learnFromInteraction calls so far
  sessions,     \* the message lists: ChatApp sessions, then one per direct call
  reqs,         \* the chat turns and processRequest calls
  queue,        \* pool.queue of the modelled dispatcher pool
  processing,   \* pool.processing
  dispatched,   \* history: the requests processQueue started, in order
  nEnqueued,    \* addToQueue calls made on the queue directly
  learned,      \* history: the (input, response) pairs handed to learnFromInteraction
  stream,       \* StreamOptimizer: config, buffer, batchTimer and its transforms
  templateService \* TemplateService.templates and the last getFastResponse

cacheVars == <<memoryCache, redisStore, preGenerated, pending, lastSet,
               lastLookup, nWrites, nLookups>>
poolVars == <<pool, metrics, callers, zombies, nextConnId, nAcquires, unconfigured>>
predVars == <<models, nLearn>>
dispVars == <<sessions, reqs, queue, processing, dispatched, nEnqueued, learned>>

\* ------------------------------------------------------------------------
\* Bounds of the model
\* ------------------------------------------------------------------------
NumKeys == 2
MaxWrites == 2
MaxLookups == 2

Keys == 1..NumKeys
\* the instants the clock is observed at, and the ttl values handed to set
CacheInstants == {1501, 2000, 400000}
TTLs == {1500, 60000}

\* ------------------------------------------------------------------------
\* Tiered cache (cache-service.ts)
\* ------------------------------------------------------------------------
maxMemorySize == 10000
RepopulateTTL == 300000
PatternTTL == 3600000
PreGenThresholdPct == 85      \* authenticityScore > 0.85, in percent
MaxPreGenerated == 5
PreGenRetention == 86400000

None == 0                     \* null / no entry; data values are >= 1
NoPending == [kind |-> "none", keys |-> {}, reply |-> <<>>, ok |-> FALSE,
              issuedAt |-> 0, hits |-> <<>>]
NoLookup == [kind |-> "none", issuedAt |-> 0, results |-> <<>>]
NoSet == [data |-> None, at |-> 0, ttl |-> 0]

Max(a, b) == IF a > b THEN a ELSE b
Min(a, b) == IF a < b THEN a ELSE b

\* Math.ceil(ttl / 1000), the seconds handed to SETEX
CeilSeconds(ttl) == (ttl + 999) \div 1000

\* Map.get
MemIndex(mem, k) ==
  IF \E i \in 1..Len(mem) : mem[i].key = k
  THEN CHOOSE i \in 1..Len(mem) : mem[i].key = k
  ELSE 0

\* Map.set: an existing key keeps its place in the insertion order
MemSet(mem, k, e) ==
  LET i == MemIndex(mem, k)
      r == [key |-> k, data |-> e.data, timestamp |-> e.timestamp,
            ttl |-> e.ttl, hits |-> e.hits]
  IN IF i = 0 THEN Append(mem, r) ELSE [mem EXCEPT ![i] = r]

\* the entries of a sequence that satisfy keep, in order
RECURSIVE SelectIdx(_, _, _)
SelectIdx(mem, keepSet, i) ==
  IF i > Len(mem) THEN <<>>
  ELSE IF i \in keepSet THEN <<mem[i]>> \o SelectIdx(mem, keepSet, i + 1)
       ELSE SelectIdx(mem, keepSet, i + 1)

\* the memory entry is live: memoryEntry.timestamp + memoryEntry.ttl > Date.now()
MemLive(mem, k, t) ==
  LET i == MemIndex(mem, k)
  IN i # 0 /\ mem[i].timestamp + mem[i].ttl > t

\* memoryEntry.hits++ on a memory hit
MemHit(mem, k) ==
  LET i == MemIndex(mem, k)
  IN [mem EXCEPT ![i].hits = @ + 1]

\* cleanupMemoryCache: stable sort by timestamp, drop the first 20 percent
\* of maxMemorySize
SortRank(mem, i) ==
  Cardinality({j \in 1..Len(mem) :
     \/ mem[j].timestamp < mem[i].timestamp
     \/ (mem[j].timestamp = mem[i].timestamp /\ j < i)})

\* an eviction that drops the least read entries
HitRank(mem, i) ==
  Cardinality({j \in 1..Len(mem) :
     \/ mem[j].hits < mem[i].hits
     \/ (mem[j].hits = mem[i].hits /\ j < i)})

CleanupByHits(mem, ceiling) ==
  LET n == (ceiling * 2) \div 10
  IN SelectIdx(mem, {i \in 1..Len(mem) : HitRank(mem, i) >= n}, 1)

\* cleanupMemoryCache for a cache whose maxMemorySize is ceiling
cleanupAt(mem, ceiling) ==
  LET n == (ceiling * 2) \div 10
  IN SelectIdx(mem, {i \in 1..Len(mem) : SortRank(mem, i) >= n}, 1)

cleanupMemoryCache(mem) == cleanupAt(mem, maxMemorySize)

\* what the persistent tier answers for cache:<k> at time t
RedisLive(store, k, t) == k \in DOMAIN store /\ t < store[k].expireAt

RedisGet(store, k, t) ==
  IF RedisLive(store, k, t) THEN store[k].data ELSE None

\* a set that leaves the memory tier alone
SetMemorySkipped(mem, k, data, ttl, t) == mem

\* CacheService.set up to its await: memory write, eviction, SETEX
SetMemoryAt(mem, k, data, ttl, t, ceiling) ==
  LET m1 == MemSet(mem, k, [data |-> data, timestamp |-> t, ttl |-> ttl, hits |-> 0])
  IN IF Len(m1) > ceiling THEN cleanupAt(m1, ceiling) ELSE m1

SetMemory(mem, k, data, ttl, t) == SetMemoryAt(mem, k, data, ttl, t, maxMemorySize)

SetRedis(store, k, data, ttl, t, ok) ==
  IF ok
  THEN [x \in DOMAIN store \cup {k} |->
          IF x = k THEN [data |-> data, expireAt |-> t + CeilSeconds(ttl) * 1000]
          ELSE store[x]]
  ELSE store

\* repopulation of the memory tier from a persistent-tier hit
Repopulate(mem, k, data, t) ==
  MemSet(mem, k, [data |-> data, timestamp |-> t, ttl |-> RepopulateTTL, hits |-> 1])

RECURSIVE RepopulateAll(_, _, _, _)
RepopulateAll(mem, ks, reply, t) ==
  IF ks = {} THEN mem
  ELSE LET k == CHOOSE x \in ks : \A y \in ks : x <= y
       IN RepopulateAll(
            IF reply[k] # None THEN Repopulate(mem, k, reply[k], t) ELSE mem,
            ks \ {k}, reply, t)

notCache == <<poolVars, predVars, dispVars, stream, templateService>>
notPool == <<cacheVars, predVars, dispVars, stream, templateService>>
notPred == <<cacheVars, poolVars, dispVars, stream, templateService>>

CacheInit ==
  /\ memoryCache = <<>>
  /\ redisStore = <<>>
  /\ preGenerated = <<>>
  /\ pending = NoPending
  /\ lastSet = [k \in Keys |-> NoSet]
  /\ lastLookup = NoLookup
  /\ nWrites = 0
  /\ nLookups = 0

\* set(key, data, ttl); the value written is fresh (the write's number)
Set(k, ttl, redisOk) ==
  /\ nWrites < MaxWrites
  /\ nWrites' = nWrites + 1
  /\ memoryCache' = SetMemory(memoryCache, k, nWrites + 1, ttl, now)
  /\ redisStore' = SetRedis(redisStore, k, nWrites + 1, ttl, now, redisOk)
  /\ lastSet' = [lastSet EXCEPT ![k] = [data |-> nWrites + 1, at |-> now, ttl |-> ttl]]
  /\ UNCHANGED <<now, preGenerated, pending, lastLookup, nLookups>>
  /\ UNCHANGED notCache

\* get(key), answered by the memory tier
GetMemoryHit(k) ==
  /\ pending = NoPending
  /\ nLookups < MaxLookups
  /\ MemLive(memoryCache, k, now)
  /\ memoryCache' = MemHit(memoryCache, k)
  /\ lastLookup' = [kind |-> "get", issuedAt |-> now,
                    results |-> [x \in {k} |-> memoryCache[MemIndex(memoryCache, k)].data]]
  /\ nLookups' = nLookups + 1
  /\ UNCHANGED <<now, redisStore, preGenerated, pending, lastSet, nWrites>>
  /\ UNCHANGED notCache

\* get(key) misses the memory tier and suspends on redis.getex; the reply
\* is the stored value or an error (caught: the call answers null)
GetSuspend(k, redisOk) ==
  /\ pending = NoPending
  /\ nLookups < MaxLookups
  /\ ~MemLive(memoryCache, k, now)
  /\ pending' = [kind |-> "get", keys |-> {k},
                 reply |-> [x \in {k} |-> RedisGet(redisStore, k, now)],
                 ok |-> redisOk, issuedAt |-> now, hits |-> <<>>]
  /\ nLookups' = nLookups + 1
  /\ UNCHANGED <<now, memoryCache, redisStore, preGenerated, lastSet, lastLookup, nWrites>>
  /\ UNCHANGED notCache

\* batchGet(keys): memory hits are answered at once, the rest go to MGET
BatchGetStart(ks, redisOk) ==
  /\ pending = NoPending
  /\ nLookups < MaxLookups
  /\ ks # {}
  /\ LET live == {k \in ks : MemLive(memoryCache, k, now)}
         rest == ks \ live
         hits == [k \in live |-> memoryCache[MemIndex(memoryCache, k)].data]
         RECURSIVE HitAll(_, _)
         HitAll(mem, s) ==
           IF s = {} THEN mem
           ELSE LET k == CHOOSE x \in s : TRUE IN HitAll(MemHit(mem, k), s \ {k})
     IN /\ memoryCache' = HitAll(memoryCache, live)
        /\ IF rest = {}
           THEN /\ lastLookup' = [kind |-> "batchGet", issuedAt |-> now, results |-> hits]
                /\ pending' = pending
           ELSE /\ pending' = [kind |-> "batchGet", keys |-> rest,
                               reply |-> [k \in rest |-> RedisGet(redisStore, k, now)],
                               ok |-> redisOk, issuedAt |-> now, hits |-> hits]
                /\ lastLookup' = lastLookup
  /\ nLookups' = nLookups + 1
  /\ UNCHANGED <<now, redisStore, preGenerated, lastSet, nWrites>>
  /\ UNCHANGED notCache

\* the persistent tier answered: repopulate the memory tier and return
LookupResume ==
  /\ pending # NoPending
  /\ LET reply == [k \in pending.keys |-> IF pending.ok THEN pending.reply[k] ELSE None]
         hitKeys == DOMAIN pending.hits
     IN /\ memoryCache' = RepopulateAll(memoryCache, pending.keys, reply, now)
        /\ lastLookup' = [kind |-> pending.kind, issuedAt |-> pending.issuedAt,
                          results |-> [k \in hitKeys \cup pending.keys |->
                                         IF k \in hitKeys THEN pending.hits[k] ELSE reply[k]]]
  /\ pending' = NoPending
  /\ UNCHANGED <<now, redisStore, preGenerated, lastSet, nWrites, nLookups>>
  /\ UNCHANGED notCache

\* cleanup() on the candidate lists: candidates older than a day are
\* dropped, a pattern left without candidates is deleted
FreshCandidates(list, t) ==
  SelectIdx(list, {i \in 1..Len(list) : t - list[i].timestamp < PreGenRetention}, 1)

SweepPreGenerated(pre, t) ==
  [p \in {q \in DOMAIN pre : FreshCandidates(pre[q], t) # <<>>} |->
      FreshCandidates(pre[p], t)]

\* the periodic sweep: cleanup()
Sweep ==
  /\ memoryCache # <<>>
  /\ memoryCache' = SelectIdx(memoryCache,
        {i \in 1..Len(memoryCache) :
            ~(memoryCache[i].timestamp + memoryCache[i].ttl < now)}, 1)
  /\ memoryCache' # memoryCache
  /\ preGenerated' = SweepPreGenerated(preGenerated, now)
  /\ UNCHANGED <<now, redisStore, pending, lastSet, lastLookup, nWrites, nLookups>>
  /\ UNCHANGED notCache

\* ------------------------------------------------------------------------
\* Connection pool (connection-pool.ts), one configured (provider, model)
\* ------------------------------------------------------------------------
NumCallers == 3
MaxAcquires == 4
maxConnections == 2           \* config.maxConnections of the modelled pair
maxRequestsPerConnection == 2 \* config.maxRequestsPerConnection
AcquireTimeout == 5000
CheckInterval == 10
IdleLimit == 300000
AgeLimit == 600000
MinPoolSize == 2
ErrorMinRequests == 10
ErrorRatePct == 30

Callers == 1..NumCallers
PoolInstants == {10, 5010, 600011}

Idle == [pc |-> "idle", conn |-> 0, viaExecute |-> FALSE, waitStart |-> 0]

\* pools.has(key), metrics.has(key), the createConnection calls, the
\* request() calls and the rejections, for a key configs does not hold
NoTrace == [hasPool |-> FALSE, hasMetrics |-> FALSE, created |-> 0,
            invoked |-> 0, rejected |-> 0]

PoolInit ==
  /\ pool = <<>>
  /\ metrics = [created |-> 0, reused |-> 0, errors |-> 0]
  /\ callers = [c \in Callers |-> Idle]
  /\ zombies = 0
  /\ nextConnId = 0
  /\ nAcquires = 0
  /\ unconfigured = NoTrace

\* no createConnection is in flight: its awaits resolve within the running
\* macrotask, so no timer callback runs while a caller is inside it
NoCreation == \A c \in DOMAIN callers : callers[c].pc # "creating"

PoolIndex(p, id) ==
  IF \E i \in 1..Len(p) : p[i].id = id
  THEN CHOOSE i \in 1..Len(p) : p[i].id = id
  ELSE 0

\* a reuse scan that forgets the inUse flag
ReusableIgnoringInUse(conn) == conn.requestCount < conn.maxRequests

\* the condition of the reuse scan in getConnection
Reusable(conn) == ~conn.inUse /\ conn.requestCount < conn.maxRequests

\* the condition of pool.find in waitForAvailableConnection
Available(conn) == ~conn.inUse

\* index of the first connection a scan with this condition finds, or 0
FirstReusable(p) ==
  IF \E i \in 1..Len(p) : Reusable(p[i])
  THEN CHOOSE i \in 1..Len(p) :
         Reusable(p[i]) /\ \A j \in 1..(i - 1) : ~Reusable(p[j])
  ELSE 0

FirstAvailable(p) ==
  IF \E i \in 1..Len(p) : Available(p[i])
  THEN CHOOSE i \in 1..Len(p) :
         Available(p[i]) /\ \A j \in 1..(i - 1) : ~Available(p[j])
  ELSE 0

\* conn.inUse = true; conn.lastUsed = Date.now(); and, inside
\* executeRequest, connection.requestCount++ once the connection is returned
Take(p, i, t, viaExecute) ==
  [p EXCEPT ![i].inUse = TRUE, ![i].lastUsed = t,
            ![i].requestCount = IF viaExecute THEN @ + 1 ELSE @]

\* createConnection
NewConnection(id, t, viaExecute) ==
  [id |-> id, inUse |-> TRUE, lastUsed |-> t, created |-> t,
   requestCount |-> IF viaExecute THEN 1 ELSE 0,
   maxRequests |-> maxRequestsPerConnection]

\* removeConnection
removeConnection(p, id) ==
  SelectIdx(p, {i \in 1..Len(p) : p[i].id # id}, 1)

\* a release that forgets the connection
ReleaseSkipped(p, id, t) == p

\* releaseConnection: the connection object is updated whether or not it is
\* still in the pool
releaseConnection(p, id, t) ==
  LET i == PoolIndex(p, id)
  IN IF i = 0 THEN p ELSE [p EXCEPT ![i].inUse = FALSE, ![i].lastUsed = t]

\* a lookup that creates the pool before it looks for the configuration
PrepareThenCheck(st, configured) ==
  IF configured
  THEN [st EXCEPT !.hasPool = TRUE, !.hasMetrics = TRUE]
  ELSE [st EXCEPT !.hasPool = TRUE, !.hasMetrics = TRUE, !.rejected = @ + 1]

\* the head of getConnection: configs.get(key), the throw when there is no
\* configuration, else pools.set / metrics.set for a key seen first
lookupConfig(st, configured) ==
  IF ~configured
  THEN [st EXCEPT !.rejected = @ + 1]
  ELSE [st EXCEPT !.hasPool = TRUE, !.hasMetrics = TRUE]

\* getConnection / executeRequest for a pair without configuration: the
\* rejection of getConnection leaves executeRequest at its first await,
\* before request() and outside its try block
GetUnconfigured(c, viaExecute) ==
  /\ callers[c].pc = "idle"
  /\ nAcquires < MaxAcquires
  /\ nAcquires' = nAcquires + 1
  /\ LET st == lookupConfig(unconfigured, FALSE)
         thrown == st.rejected > unconfigured.rejected
     IN unconfigured' =
          IF thrown THEN st
          ELSE [st EXCEPT !.created = @ + 1,
                          !.invoked = IF viaExecute THEN @ + 1 ELSE @]
  /\ UNCHANGED <<now, pool, metrics, callers, zombies, nextConnId>>
  /\ UNCHANGED notPool

GetConnection(c, viaExecute) ==
  /\ callers[c].pc = "idle"
  /\ nAcquires < MaxAcquires
  /\ nAcquires' = nAcquires + 1
  /\ LET i == FirstReusable(pool)
     IN IF i # 0
        THEN /\ pool' = Take(pool, i, now, viaExecute)
             /\ metrics' = [metrics EXCEPT !.reused = @ + 1]
             /\ callers' = [callers EXCEPT ![c] =
                  [pc |-> "holding", conn |-> pool[i].id, viaExecute |-> viaExecute,
                   waitStart |-> 0]]
        ELSE IF Len(pool) < maxConnections
        THEN /\ callers' = [callers EXCEPT ![c] =
                  [pc |-> "creating", conn |-> 0, viaExecute |-> viaExecute,
                   waitStart |-> 0]]
             /\ UNCHANGED <<pool, metrics>>
        ELSE /\ callers' = [callers EXCEPT ![c] =
                  [pc |-> "waiting", conn |-> 0, viaExecute |-> viaExecute,
                   waitStart |-> now]]
             /\ UNCHANGED <<pool, metrics>>
  /\ UNCHANGED <<now, zombies, nextConnId>>
  /\ UNCHANGED <<unconfigured, notPool>>

\* getConnection after await createConnection(config): pool.push(newConn)
CreateFinish(c) ==
  /\ callers[c].pc = "creating"
  /\ pool' = Append(pool, NewConnection(nextConnId + 1, now, callers[c].viaExecute))
  /\ nextConnId' = nextConnId + 1
  /\ metrics' = [metrics EXCEPT !.created = @ + 1]
  /\ callers' = [callers EXCEPT ![c].pc = "holding", ![c].conn = nextConnId + 1]
  /\ UNCHANGED <<now, zombies, nAcquires>>
  /\ UNCHANGED <<unconfigured, notPool>>

\* the expiry of the first tick of waiter c's interval at or after time f:
\* the interval expires every CheckInterval after the wait began
TickAfter(c, f) ==
  LET s == callers[c].waitStart
  IN IF f <= s + CheckInterval THEN s + CheckInterval
     ELSE s + ((f - s + CheckInterval - 1) \div CheckInterval) * CheckInterval

\* timers run in the order of their expiry, and at equal expiry in the order
\* they were armed: the tick of c that finds the connection free since f is
\* not preceded by a tick of another waiter
TicksFirst(c, f) ==
  \A d \in DOMAIN callers \ {c} :
    callers[d].pc = "waiting" =>
      \/ TickAfter(c, f) < TickAfter(d, f)
      \/ (TickAfter(c, f) = TickAfter(d, f) /\ callers[c].waitStart <= callers[d].waitStart)

\* a tick of the waiter's setInterval that finds a free connection
WaiterCheck(c) ==
  /\ NoCreation
  /\ callers[c].pc = "waiting"
  /\ LET i == FirstAvailable(pool)
     IN /\ i # 0
        /\ now >= TickAfter(c, pool[i].lastUsed)
        /\ TicksFirst(c, pool[i].lastUsed)
        /\ pool' = Take(pool, i, now, callers[c].viaExecute)
        /\ callers' = [callers EXCEPT ![c].pc = "holding", ![c].conn = pool[i].id]
  /\ UNCHANGED <<now, metrics, zombies, nextConnId, nAcquires>>
  /\ UNCHANGED <<unconfigured, notPool>>

\* the waiter's setTimeout fires: reject('Connection timeout'); the check
\* interval is not cleared. Timers run in the order of their expiry: a
\* connection that was free one check interval before the timeout expired
\* has been taken by a tick of the interval first.
WaiterTimeout(c) ==
  /\ NoCreation
  /\ callers[c].pc = "waiting"
  /\ now >= callers[c].waitStart + AcquireTimeout
  /\ \A i \in 1..Len(pool) :
       Available(pool[i]) =>
         pool[i].lastUsed + CheckInterval > callers[c].waitStart + AcquireTimeout
  /\ callers' = [callers EXCEPT ![c] = Idle]
  /\ zombies' = zombies + 1
  /\ UNCHANGED <<now, pool, metrics, nextConnId, nAcquires>>
  /\ UNCHANGED <<unconfigured, notPool>>

\* a tick of an interval whose waiter has already been rejected
ZombieCheck ==
  /\ NoCreation
  /\ zombies > 0
  /\ LET i == FirstAvailable(pool)
     IN /\ i # 0
        /\ pool' = Take(pool, i, now, FALSE)
  /\ zombies' = zombies - 1
  /\ UNCHANGED <<now, metrics, callers, nextConnId, nAcquires>>
  /\ UNCHANGED <<unconfigured, notPool>>

\* executeRequest after request() settled: error accounting, eviction,
\* and the release in finally
RequestDone(c, ok) ==
  /\ callers[c].pc = "holding"
  /\ callers[c].viaExecute
  /\ LET id == callers[c].conn
         i == PoolIndex(pool, id)
         errs == IF ok THEN metrics.errors ELSE metrics.errors + 1
         evict == /\ ~ok
                  /\ i # 0
                  /\ pool[i].requestCount > ErrorMinRequests
                  /\ errs * 100 > pool[i].requestCount * ErrorRatePct
         p1 == IF evict THEN removeConnection(pool, id) ELSE pool
     IN /\ metrics' = [metrics EXCEPT !.errors = errs]
        /\ pool' = releaseConnection(p1, id, now)
  /\ callers' = [callers EXCEPT ![c] = Idle]
  /\ UNCHANGED <<now, zombies, nextConnId, nAcquires>>
  /\ UNCHANGED <<unconfigured, notPool>>

\* releaseConnection called by a task that used getConnection directly
Release(c) ==
  /\ callers[c].pc = "holding"
  /\ ~callers[c].viaExecute
  /\ pool' = releaseConnection(pool, callers[c].conn, now)
  /\ callers' = [callers EXCEPT ![c] = Idle]
  /\ UNCHANGED <<now, metrics, zombies, nextConnId, nAcquires>>
  /\ UNCHANGED <<unconfigured, notPool>>

\* the connections the maintenance sweep retires
Retire(conn, t) ==
  \/ (~conn.inUse /\ t - conn.lastUsed > IdleLimit)
  \/ conn.requestCount >= conn.maxRequests
  \/ (~conn.inUse /\ t - conn.created > AgeLimit)

\* cleanup(): retire, then replenish a keep-alive pool below its minimum
poolCleanup(p, id, t) ==
  LET kept == SelectIdx(p, {i \in 1..Len(p) : ~Retire(p[i], t)}, 1)
  IN IF Len(kept) < MinPoolSize
     THEN Append(kept, [NewConnection(id, t, FALSE) EXCEPT !.inUse = FALSE])
     ELSE kept

Cleanup ==
  /\ NoCreation
  /\ nextConnId > 0
  /\ pool' = poolCleanup(pool, nextConnId + 1, now)
  /\ nextConnId' =
       IF Len(SelectIdx(pool, {i \in 1..Len(pool) : ~Retire(pool[i], now)}, 1)) < MinPoolSize
       THEN nextConnId + 1 ELSE nextConnId
  /\ nextConnId' <= MaxAcquires + 2
  /\ UNCHANGED <<now, metrics, callers, zombies, nAcquires>>
  /\ UNCHANGED <<unconfigured, notPool>>

\* ------------------------------------------------------------------------
\* Prediction engine (prediction-service.ts)
\* Strings are sequences of characters; probabilities and accuracies are
\* fixed-point numbers, Scale units to 1.
\* ------------------------------------------------------------------------
MaxLearn == 3
NumTokens == 2
Scale == 10000

\* String.prototype.includes
Includes(s, sub) ==
  \E i \in 1..(Len(s) - Len(sub) + 1) : SubSeq(s, i, i + Len(sub) - 1) = sub

\* the user inputs of the model (lower case, trimmed)
InHello == <<"h", "e", "l", "l", "o">>
InHelpMe == <<"h", "e", "l", "p", " ", "m", "e">>
InWhatIs == <<"w", "h", "a", "t", " ", "i", "s", " ", "t", "l", "a">>
InNice == <<"n", "i", "c", "e">>
InZzz == <<"z", "z", "z">>
Inputs == {InHello, InWhatIs, InHelpMe, InNice, InZzz}

ModelIds == <<"greeting", "question", "help", "casual">>

\* matchesPattern: the keyword table
keywords ==
  [greeting |-> {<<"h", "e", "l", "l", "o">>,
              <<"h", "i">>,
              <<"h", "e", "y">>,
              <<"y", "o">>,
              <<"w", "h", "a", "t", "'", "s", " ", "u", "p">>,
              <<"g", "o", "o", "d", " ", "m", "o", "r", "n", "i", "n", "g">>,
              <<"g", "o", "o", "d", " ", "e", "v", "e", "n", "i", "n", "g">>},
   question |-> {<<"w", "h", "a", "t">>,
              <<"h", "o", "w">>,
              <<"w", "h", "y">>,
              <<"w", "h", "e", "n">>,
              <<"w", "h", "e", "r", "e">>,
              <<"w", "h", "o">>,
              <<"w", "h", "i", "c", "h">>,
              <<"c", "a", "n">>,
              <<"c", "o", "u", "l", "d">>,
              <<"w", "o", "u", "l", "d">>,
              <<"s", "h", "o", "u", "l", "d">>},
   help |-> {<<"h", "e", "l", "p">>,
              <<"a", "s", "s", "i", "s", "t">>,
              <<"s", "u", "p", "p", "o", "r", "t">>,
              <<"c", "a", "n", " ", "y", "o", "u">>,
              <<"n", "e", "e", "d">>,
              <<"s", "t", "u", "c", "k">>},
   casual |-> {<<"c", "o", "o", "l">>,
              <<"a", "w", "e", "s", "o", "m", "e">>,
              <<"g", "r", "e", "a", "t">>,
              <<"n", "i", "c", "e">>,
              <<"w", "o", "w">>,
              <<"a", "m", "a", "z", "i", "n", "g">>,
              <<"t", "o", "t", "a", "l", "l", "y">>,
              <<"f", "o", "r", " ", "s", "u", "r", "e">>}]

\* matchesPattern(input, pattern)
matchesPattern(input, pattern) ==
  \E kw \in keywords[pattern] : Includes(input, kw)

\* the first model, in the Map's insertion order, whose pattern matches; 0 if none
FirstMatchingModel(input) ==
  IF \E m \in 1..Len(ModelIds) : matchesPattern(input, ModelIds[m])
  THEN CHOOSE m \in 1..Len(ModelIds) :
         /\ matchesPattern(input, ModelIds[m])
         /\ \A n \in 1..(m - 1) : ~matchesPattern(input, ModelIds[n])
  ELSE 0

\* the model learnFromInteraction updates for each input of the model
MatchedModel == [input \in Inputs |-> FirstMatchingModel(input)]

\* initializeModels: probabilities and accuracy of the four models
InitialModels ==
  << [probability |-> <<4000, 3000, 2000, 1000>>, accuracy |-> 8500, usage |-> 0],
     [probability |-> <<3500, 2500, 2000, 2000>>, accuracy |-> 8000, usage |-> 0],
     [probability |-> <<4500, 3000, 2500>>, accuracy |-> 9000, usage |-> 0],
     [probability |-> <<3000, 2500, 2500, 2000>>, accuracy |-> 7500, usage |-> 0] >>

RECURSIVE SumSeq(_)
SumSeq(q) == IF q = <<>> THEN 0 ELSE Head(q) + SumSeq(Tail(q))

\* a / b rounded to the nearest unit, the rounding of the division
DivRound(a, b) == (2 * a + b) \div (2 * b)

\* calculateSimilarity: Jaccard similarity of two token sets
calculateSimilarity(words1, words2) ==
  DivRound(Cardinality(words1 \cap words2) * Scale, Cardinality(words1 \cup words2))

\* the adjustment of the predicted response's probability
Nudge(p, similarity) ==
  IF similarity * 10 > 8 * Scale
  THEN Min(Scale \div 2, p + Scale \div 100)
  ELSE Max(Scale \div 20, p - Scale \div 50)

\* r.probability = r.probability / total, for every response
Normalize(probs) ==
  LET total == SumSeq(probs)
  IN [i \in 1..Len(probs) |-> DivRound(probs[i] * Scale, total)]

\* an update that normalizes before it adjusts the predicted response
UpdateNormalizingFirst(probs, predictedIndex, similarity) ==
  LET n == Normalize(probs)
  IN IF predictedIndex # 0
     THEN [n EXCEPT ![predictedIndex] = Nudge(@, similarity)]
     ELSE n

\* updateResponseProbabilities; predictedIndex is findIndex(...) + 1, 0 if
\* the predicted text is not one of the model's responses
updateResponseProbabilities(probs, predictedIndex, similarity) ==
  Normalize(IF predictedIndex # 0
            THEN [probs EXCEPT ![predictedIndex] = Nudge(@, similarity)]
            ELSE probs)

\* model.accuracy + (similarity - model.accuracy) * learningRate, in [0, 1]
UpdateAccuracy(accuracy, similarity) ==
  Max(0, Min(Scale, accuracy + (similarity - accuracy) \div 10))

PredInit ==
  /\ models = InitialModels
  /\ nLearn = 0

\* learnFromInteraction(input, actualResponse, predictedResponse); the
\* writes of the ctx: and learn: cache entries leave the models untouched
LearnUpTo(limit, input, predictedIndex, predictedWords, actualWords) ==
  /\ nLearn < limit
  /\ nLearn' = nLearn + 1
  /\ LET m == MatchedModel[input]
         similarity == calculateSimilarity(predictedWords, actualWords)
     IN /\ m # 0
        /\ predictedIndex <= Len(models[m].probability)
        /\ models' = [models EXCEPT
              ![m].accuracy = UpdateAccuracy(@, similarity),
              ![m].probability =
                 updateResponseProbabilities(@, predictedIndex, similarity)]
  /\ UNCHANGED now
  /\ UNCHANGED notPred

Learn(input, predictedIndex, predictedWords, actualWords) ==
  LearnUpTo(MaxLearn, input, predictedIndex, predictedWords, actualWords)

\* learnFromInteraction without a predicted response, or for an input no
\* model matches: no model changes
LearnNothing(input) ==
  /\ nLearn < MaxLearn
  /\ MatchedModel[input] = 0
  /\ nLearn' = nLearn + 1
  /\ UNCHANGED <<now, models>>
  /\ UNCHANGED notPred

\* ------------------------------------------------------------------------
\* Texts: message contents, candidate responses, template and pattern tables.
\* A text is named by its string; Chars gives its characters, on which the
\* source's matching, splitting and hashing are computed.
\* ------------------------------------------------------------------------
LowerCase ==
     ("A" :> "a") @@ ("B" :> "b") @@ ("C" :> "c") @@ ("D" :> "d") @@ ("E" :> "e")
  @@ ("F" :> "f") @@ ("G" :> "g") @@ ("H" :> "h") @@ ("I" :> "i") @@ ("J" :> "j")
  @@ ("K" :> "k") @@ ("L" :> "l") @@ ("M" :> "m") @@ ("N" :> "n") @@ ("O" :> "o")
  @@ ("P" :> "p") @@ ("Q" :> "q") @@ ("R" :> "r") @@ ("S" :> "s") @@ ("T" :> "t")
  @@ ("U" :> "u") @@ ("V" :> "v") @@ ("W" :> "w") @@ ("X" :> "x") @@ ("Y" :> "y")
  @@ ("Z" :> "z")

\* String.prototype.toLowerCase
toLowerCase(s) ==
  [i \in 1..Len(s) |-> IF s[i] \in DOMAIN LowerCase THEN LowerCase[s[i]] ELSE s[i]]

\* String.prototype.trim
RECURSIVE trim(_)
trim(s) ==
  IF s = <<>> THEN s
  ELSE IF Head(s) = " " THEN trim(Tail(s))
  ELSE IF s[Len(s)] = " " THEN trim(SubSeq(s, 1, Len(s) - 1))
  ELSE s

\* String.prototype.split(' ')
RECURSIVE split(_)
split(s) ==
  IF \E i \in 1..Len(s) : s[i] = " "
  THEN LET i == CHOOSE j \in 1..Len(s) :
                  s[j] = " " /\ \A k \in 1..(j - 1) : s[k] # " "
       IN <<SubSeq(s, 1, i - 1)>> \o split(SubSeq(s, i + 1, Len(s)))
  ELSE <<s>>

\* Array.prototype.join(' ')
RECURSIVE join(_)
join(ws) ==
  IF ws = <<>> THEN <<>>
  ELSE IF Len(ws) = 1 THEN ws[1]
  ELSE ws[1] \o <<" ">> \o join(Tail(ws))

\* String.prototype.startsWith, the test of a regular expression anchored by ^
StartsWith(s, prefix) ==
  Len(prefix) <= Len(s) /\ SubSeq(s, 1, Len(prefix)) = prefix

\* the texts of the model and their characters
Chars ==
     ("zzz" :> <<"z", "z", "z">>)
  @@ ("hello" :> <<"h", "e", "l", "l", "o">>)
  @@ ("help me" :> <<"h", "e", "l", "p", " ", "m", "e">>)
  @@ ("tell me about x" :> <<"t", "e", "l", "l", " ", "m", "e", " ", "a", "b", "o", "u", "t", " ", "x">>)
  @@ ("Hey there! How can I help you today?" :> <<"H", "e", "y", " ", "t", "h", "e", "r", "e", "!", " ", "H", "o", "w", " ", "c", "a", "n", " ", "I", " ", "h", "e", "l", "p", " ", "y", "o", "u", " ", "t", "o", "d", "a", "y", "?">>)
  @@ ("Hi! What's on your mind?" :> <<"H", "i", "!", " ", "W", "h", "a", "t", "'", "s", " ", "o", "n", " ", "y", "o", "u", "r", " ", "m", "i", "n", "d", "?">>)
  @@ ("Hello! Great to see you!" :> <<"H", "e", "l", "l", "o", "!", " ", "G", "r", "e", "a", "t", " ", "t", "o", " ", "s", "e", "e", " ", "y", "o", "u", "!">>)
  @@ ("Hey! How's it going?" :> <<"H", "e", "y", "!", " ", "H", "o", "w", "'", "s", " ", "i", "t", " ", "g", "o", "i", "n", "g", "?">>)
  @@ ("Let me help you with that." :> <<"L", "e", "t", " ", "m", "e", " ", "h", "e", "l", "p", " ", "y", "o", "u", " ", "w", "i", "t", "h", " ", "t", "h", "a", "t", ".">>)
  @@ ("Here's what you need to know..." :> <<"H", "e", "r", "e", "'", "s", " ", "w", "h", "a", "t", " ", "y", "o", "u", " ", "n", "e", "e", "d", " ", "t", "o", " ", "k", "n", "o", "w", ".", ".", ".">>)
  @@ ("I can definitely assist with this." :> <<"I", " ", "c", "a", "n", " ", "d", "e", "f", "i", "n", "i", "t", "e", "l", "y", " ", "a", "s", "s", "i", "s", "t", " ", "w", "i", "t", "h", " ", "t", "h", "i", "s", ".">>)
  @@ ("Based on what I understand..." :> <<"B", "a", "s", "e", "d", " ", "o", "n", " ", "w", "h", "a", "t", " ", "I", " ", "u", "n", "d", "e", "r", "s", "t", "a", "n", "d", ".", ".", ".">>)
  @@ ("Absolutely! I'm here to help." :> <<"A", "b", "s", "o", "l", "u", "t", "e", "l", "y", "!", " ", "I", "'", "m", " ", "h", "e", "r", "e", " ", "t", "o", " ", "h", "e", "l", "p", ".">>)
  @@ ("Of course! What do you need?" :> <<"O", "f", " ", "c", "o", "u", "r", "s", "e", "!", " ", "W", "h", "a", "t", " ", "d", "o", " ", "y", "o", "u", " ", "n", "e", "e", "d", "?">>)
  @@ ("I'd be happy to assist." :> <<"I", "'", "d", " ", "b", "e", " ", "h", "a", "p", "p", "y", " ", "t", "o", " ", "a", "s", "s", "i", "s", "t", ".">>)
  @@ ("Totally get what you mean." :> <<"T", "o", "t", "a", "l", "l", "y", " ", "g", "e", "t", " ", "w", "h", "a", "t", " ", "y", "o", "u", " ", "m", "e", "a", "n", ".">>)
  @@ ("For sure, that makes sense." :> <<"F", "o", "r", " ", "s", "u", "r", "e", ",", " ", "t", "h", "a", "t", " ", "m", "a", "k", "e", "s", " ", "s", "e", "n", "s", "e", ".">>)
  @@ ("I feel you on that one." :> <<"I", " ", "f", "e", "e", "l", " ", "y", "o", "u", " ", "o", "n", " ", "t", "h", "a", "t", " ", "o", "n", "e", ".">>)
  @@ ("No doubt about it." :> <<"N", "o", " ", "d", "o", "u", "b", "t", " ", "a", "b", "o", "u", "t", " ", "i", "t", ".">>)
  @@ ("Hey there! How's it going?" :> <<"H", "e", "y", " ", "t", "h", "e", "r", "e", "!", " ", "H", "o", "w", "'", "s", " ", "i", "t", " ", "g", "o", "i", "n", "g", "?">>)
  @@ ("Hi! What can I help you with today?" :> <<"H", "i", "!", " ", "W", "h", "a", "t", " ", "c", "a", "n", " ", "I", " ", "h", "e", "l", "p", " ", "y", "o", "u", " ", "w", "i", "t", "h", " ", "t", "o", "d", "a", "y", "?">>)
  @@ ("Hello! Great to see you. What's on your mind?" :> <<"H", "e", "l", "l", "o", "!", " ", "G", "r", "e", "a", "t", " ", "t", "o", " ", "s", "e", "e", " ", "y", "o", "u", ".", " ", "W", "h", "a", "t", "'", "s", " ", "o", "n", " ", "y", "o", "u", "r", " ", "m", "i", "n", "d", "?">>)
  @@ ("That's basically..." :> <<"T", "h", "a", "t", "'", "s", " ", "b", "a", "s", "i", "c", "a", "l", "l", "y", ".", ".", ".">>)
  @@ ("Simply put, it's..." :> <<"S", "i", "m", "p", "l", "y", " ", "p", "u", "t", ",", " ", "i", "t", "'", "s", ".", ".", ".">>)
  @@ ("Let me break this down for you..." :> <<"L", "e", "t", " ", "m", "e", " ", "b", "r", "e", "a", "k", " ", "t", "h", "i", "s", " ", "d", "o", "w", "n", " ", "f", "o", "r", " ", "y", "o", "u", ".", ".", ".">>)
  @@ ("I'd be happy to assist you." :> <<"I", "'", "d", " ", "b", "e", " ", "h", "a", "p", "p", "y", " ", "t", "o", " ", "a", "s", "s", "i", "s", "t", " ", "y", "o", "u", ".">>)
  @@ ("Got it!" :> <<"G", "o", "t", " ", "i", "t", "!">>)
  @@ ("Perfect!" :> <<"P", "e", "r", "f", "e", "c", "t", "!">>)
  @@ ("Understood." :> <<"U", "n", "d", "e", "r", "s", "t", "o", "o", "d", ".">>)
  @@ ("Take care! See you soon." :> <<"T", "a", "k", "e", " ", "c", "a", "r", "e", "!", " ", "S", "e", "e", " ", "y", "o", "u", " ", "s", "o", "o", "n", ".">>)
  @@ ("It was great chatting with you!" :> <<"I", "t", " ", "w", "a", "s", " ", "g", "r", "e", "a", "t", " ", "c", "h", "a", "t", "t", "i", "n", "g", " ", "w", "i", "t", "h", " ", "y", "o", "u", "!">>)
  @@ ("Have a great day! Bye for now." :> <<"H", "a", "v", "e", " ", "a", " ", "g", "r", "e", "a", "t", " ", "d", "a", "y", "!", " ", "B", "y", "e", " ", "f", "o", "r", " ", "n", "o", "w", ".">>)
  @@ ("I'm doing great, thanks for asking! How about yourself?" :> <<"I", "'", "m", " ", "d", "o", "i", "n", "g", " ", "g", "r", "e", "a", "t", ",", " ", "t", "h", "a", "n", "k", "s", " ", "f", "o", "r", " ", "a", "s", "k", "i", "n", "g", "!", " ", "H", "o", "w", " ", "a", "b", "o", "u", "t", " ", "y", "o", "u", "r", "s", "e", "l", "f", "?">>)
  @@ ("I'm a conversational AI designed to help with various tasks." :> <<"I", "'", "m", " ", "a", " ", "c", "o", "n", "v", "e", "r", "s", "a", "t", "i", "o", "n", "a", "l", " ", "A", "I", " ", "d", "e", "s", "i", "g", "n", "e", "d", " ", "t", "o", " ", "h", "e", "l", "p", " ", "w", "i", "t", "h", " ", "v", "a", "r", "i", "o", "u", "s", " ", "t", "a", "s", "k", "s", ".">>)
  @@ ("Absolutely! I'd be happy to help. What do you need?" :> <<"A", "b", "s", "o", "l", "u", "t", "e", "l", "y", "!", " ", "I", "'", "d", " ", "b", "e", " ", "h", "a", "p", "p", "y", " ", "t", "o", " ", "h", "e", "l", "p", ".", " ", "W", "h", "a", "t", " ", "d", "o", " ", "y", "o", "u", " ", "n", "e", "e", "d", "?">>)
  @@ ("Sure! I'd be glad to share information about that topic." :> <<"S", "u", "r", "e", "!", " ", "I", "'", "d", " ", "b", "e", " ", "g", "l", "a", "d", " ", "t", "o", " ", "s", "h", "a", "r", "e", " ", "i", "n", "f", "o", "r", "m", "a", "t", "i", "o", "n", " ", "a", "b", "o", "u", "t", " ", "t", "h", "a", "t", " ", "t", "o", "p", "i", "c", ".">>)
  @@ ("Here's how you can do that step by step." :> <<"H", "e", "r", "e", "'", "s", " ", "h", "o", "w", " ", "y", "o", "u", " ", "c", "a", "n", " ", "d", "o", " ", "t", "h", "a", "t", " ", "s", "t", "e", "p", " ", "b", "y", " ", "s", "t", "e", "p", ".">>)
  @@ ("That's an interesting question. Let me explain the reasoning behind it." :> <<"T", "h", "a", "t", "'", "s", " ", "a", "n", " ", "i", "n", "t", "e", "r", "e", "s", "t", "i", "n", "g", " ", "q", "u", "e", "s", "t", "i", "o", "n", ".", " ", "L", "e", "t", " ", "m", "e", " ", "e", "x", "p", "l", "a", "i", "n", " ", "t", "h", "e", " ", "r", "e", "a", "s", "o", "n", "i", "n", "g", " ", "b", "e", "h", "i", "n", "d", " ", "i", "t", ".">>)
  @@ ("Based on my understanding, I believe..." :> <<"B", "a", "s", "e", "d", " ", "o", "n", " ", "m", "y", " ", "u", "n", "d", "e", "r", "s", "t", "a", "n", "d", "i", "n", "g", ",", " ", "I", " ", "b", "e", "l", "i", "e", "v", "e", ".", ".", ".">>)
  @@ ("You're welcome! Is there anything else I can help with?" :> <<"Y", "o", "u", "'", "r", "e", " ", "w", "e", "l", "c", "o", "m", "e", "!", " ", "I", "s", " ", "t", "h", "e", "r", "e", " ", "a", "n", "y", "t", "h", "i", "n", "g", " ", "e", "l", "s", "e", " ", "I", " ", "c", "a", "n", " ", "h", "e", "l", "p", " ", "w", "i", "t", "h", "?">>)
  @@ ("It was great chatting with you! Feel free to come back anytime." :> <<"I", "t", " ", "w", "a", "s", " ", "g", "r", "e", "a", "t", " ", "c", "h", "a", "t", "t", "i", "n", "g", " ", "w", "i", "t", "h", " ", "y", "o", "u", "!", " ", "F", "e", "e", "l", " ", "f", "r", "e", "e", " ", "t", "o", " ", "c", "o", "m", "e", " ", "b", "a", "c", "k", " ", "a", "n", "y", "t", "i", "m", "e", ".">>)
  @@ ("Hey there! How can I assist you today?" :> <<"H", "e", "y", " ", "t", "h", "e", "r", "e", "!", " ", "H", "o", "w", " ", "c", "a", "n", " ", "I", " ", "a", "s", "s", "i", "s", "t", " ", "y", "o", "u", " ", "t", "o", "d", "a", "y", "?">>)
  @@ ("<greeting_1>" :> <<"<", "g", "r", "e", "e", "t", "i", "n", "g", "_", "1", ">">>)
  @@ ("<greeting_2>" :> <<"<", "g", "r", "e", "e", "t", "i", "n", "g", "_", "2", ">">>)
  @@ ("<question_1>" :> <<"<", "q", "u", "e", "s", "t", "i", "o", "n", "_", "1", ">">>)
  @@ ("<question_2>" :> <<"<", "q", "u", "e", "s", "t", "i", "o", "n", "_", "2", ">">>)
  @@ ("<question_3>" :> <<"<", "q", "u", "e", "s", "t", "i", "o", "n", "_", "3", ">">>)
  @@ ("<help_1>" :> <<"<", "h", "e", "l", "p", "_", "1", ">">>)
  @@ ("<casual_1>" :> <<"<", "c", "a", "s", "u", "a", "l", "_", "1", ">">>)
  @@ ("<casual_2>" :> <<"<", "c", "a", "s", "u", "a", "l", "_", "2", ">">>)
  @@ ("<technical_1>" :> <<"<", "t", "e", "c", "h", "n", "i", "c", "a", "l", "_", "1", ">">>)
  @@ ("<creative_1>" :> <<"<", "c", "r", "e", "a", "t", "i", "v", "e", "_", "1", ">">>)
  @@ ("r1p1" :> <<"r", "1", "p", "1">>)
  @@ ("r1p2" :> <<"r", "1", "p", "2">>)
  @@ ("r1p3" :> <<"r", "1", "p", "3">>)
  @@ ("r2p1" :> <<"r", "2", "p", "1">>)
  @@ ("r2p2" :> <<"r", "2", "p", "2">>)
  @@ ("r2p3" :> <<"r", "2", "p", "3">>)
  @@ ("r3p1" :> <<"r", "3", "p", "1">>)
  @@ ("r3p2" :> <<"r", "3", "p", "2">>)
  @@ ("r3p3" :> <<"r", "3", "p", "3">>)
  @@ ("r4p1" :> <<"r", "4", "p", "1">>)
  @@ ("r4p2" :> <<"r", "4", "p", "2">>)
  @@ ("r4p3" :> <<"r", "4", "p", "3">>)

\* the responses of initializeModels, model by model
CandText ==
  << <<"Hey there! How can I help you today?", "Hi! What's on your mind?", "Hello! Great to see you!", "Hey! How's it going?">>,
     <<"Let me help you with that.", "Here's what you need to know...", "I can definitely assist with this.", "Based on what I understand...">>,
     <<"Absolutely! I'm here to help.", "Of course! What do you need?", "I'd be happy to assist.">>,
     <<"Totally get what you mean.", "For sure, that makes sense.", "I feel you on that one.", "No doubt about it.">> >>

\* generateFastResponses: key, then (text, authenticity in percent)
fastResponses ==
  << [key |-> <<"h", "e", "l", "l", "o">>,
      responses |-> <<[text |-> "Hey there! How's it going?", authenticity |-> 95], [text |-> "Hi! What can I help you with today?", authenticity |-> 92], [text |-> "Hello! Great to see you. What's on your mind?", authenticity |-> 94]>>],
     [key |-> <<"w", "h", "a", "t", " ", "i", "s">>,
      responses |-> <<[text |-> "That's basically...", authenticity |-> 91], [text |-> "Simply put, it's...", authenticity |-> 89], [text |-> "Let me break this down for you...", authenticity |-> 93]>>],
     [key |-> <<"h", "e", "l", "p">>,
      responses |-> <<[text |-> "Absolutely! I'm here to help.", authenticity |-> 94], [text |-> "Of course! What do you need?", authenticity |-> 92], [text |-> "I'd be happy to assist you.", authenticity |-> 90]>>],
     [key |-> <<"o", "k", "a", "y">>,
      responses |-> <<[text |-> "Got it!", authenticity |-> 88], [text |-> "Perfect!", authenticity |-> 86], [text |-> "Understood.", authenticity |-> 87]>>],
     [key |-> <<"b", "y", "e">>,
      responses |-> <<[text |-> "Take care! See you soon.", authenticity |-> 91], [text |-> "It was great chatting with you!", authenticity |-> 93], [text |-> "Have a great day! Bye for now.", authenticity |-> 90]>>] >>

\* initializeTemplates: the regular expressions, by category in the
\* Map's insertion order; text names the filled-in template
templates ==
  << [id |-> "greeting_1", text |-> "<greeting_1>", anchored |-> TRUE, priority |-> 1,
      alternatives |-> {<<"h", "i">>,
                        <<"h", "e", "l", "l", "o">>,
                        <<"h", "e", "y">>,
                        <<"y", "o">>,
                        <<"w", "h", "a", "t", "'", "s", " ", "u", "p">>,
                        <<"s", "u", "p">>,
                        <<"g", "o", "o", "d", " ", "m", "o", "r", "n", "i", "n", "g">>,
                        <<"g", "o", "o", "d", " ", "e", "v", "e", "n", "i", "n", "g">>,
                        <<"g", "o", "o", "d", " ", "a", "f", "t", "e", "r", "n", "o", "o", "n">>}],
     [id |-> "greeting_2", text |-> "<greeting_2>", anchored |-> TRUE, priority |-> 1,
      alternatives |-> {<<"h", "o", "w", " ", "a", "r", "e", " ", "y", "o", "u">>,
                        <<"h", "o", "w", " ", "d", "o", " ", "y", "o", "u", " ", "d", "o">>,
                        <<"h", "o", "w", "'", "s", " ", "i", "t", " ", "g", "o", "i", "n", "g">>,
                        <<"w", "h", "a", "t", "'", "s", " ", "n", "e", "w">>}],
     [id |-> "question_1", text |-> "<question_1>", anchored |-> TRUE, priority |-> 2,
      alternatives |-> {<<"w", "h", "a", "t", " ", "i", "s">>,
                        <<"w", "h", "a", "t", "'", "s">>,
                        <<"d", "e", "f", "i", "n", "e">>,
                        <<"e", "x", "p", "l", "a", "i", "n">>}],
     [id |-> "question_2", text |-> "<question_2>", anchored |-> TRUE, priority |-> 2,
      alternatives |-> {<<"h", "o", "w", " ", "d", "o">>,
                        <<"h", "o", "w", " ", "c", "a", "n">>,
                        <<"h", "o", "w", " ", "t", "o">>}],
     [id |-> "question_3", text |-> "<question_3>", anchored |-> TRUE, priority |-> 2,
      alternatives |-> {<<"w", "h", "y", " ", "d", "o", "e", "s">>,
                        <<"w", "h", "y", " ", "i", "s">>,
                        <<"w", "h", "y", " ", "d", "o">>}],
     [id |-> "help_1", text |-> "<help_1>", anchored |-> TRUE, priority |-> 3,
      alternatives |-> {<<"h", "e", "l", "p">>,
                        <<"a", "s", "s", "i", "s", "t">>,
                        <<"s", "u", "p", "p", "o", "r", "t">>,
                        <<"c", "a", "n", " ", "y", "o", "u">>}],
     [id |-> "casual_1", text |-> "<casual_1>", anchored |-> FALSE, priority |-> 4,
      alternatives |-> {<<"c", "o", "o", "l">>,
                        <<"a", "w", "e", "s", "o", "m", "e">>,
                        <<"g", "r", "e", "a", "t">>,
                        <<"a", "m", "a", "z", "i", "n", "g">>,
                        <<"w", "o", "w">>}],
     [id |-> "casual_2", text |-> "<casual_2>", anchored |-> FALSE, priority |-> 4,
      alternatives |-> {<<"t", "h", "a", "n", "k", "s">>,
                        <<"t", "h", "a", "n", "k", " ", "y", "o", "u">>,
                        <<"a", "p", "p", "r", "e", "c", "i", "a", "t", "e", " ", "i", "t">>}],
     [id |-> "technical_1", text |-> "<technical_1>", anchored |-> FALSE, priority |-> 5,
      alternatives |-> {<<"c", "o", "d", "e">>,
                        <<"p", "r", "o", "g", "r", "a", "m", "m", "i", "n", "g">>,
                        <<"d", "e", "v", "e", "l", "o", "p">>,
                        <<"d", "e", "b", "u", "g">>}],
     [id |-> "creative_1", text |-> "<creative_1>", anchored |-> FALSE, priority |-> 6,
      alternatives |-> {<<"s", "t", "o", "r", "y">>,
                        <<"w", "r", "i", "t", "e">>,
                        <<"c", "r", "e", "a", "t", "e">>,
                        <<"i", "m", "a", "g", "i", "n", "e">>}] >>

\* getPrediction: the common question patterns, in the object's key order
quickPatterns ==
  << [pattern |-> <<"h", "o", "w", " ", "a", "r", "e">>,
      response |-> "I'm doing great, thanks for asking! How about yourself?"],
     [pattern |-> <<"w", "h", "a", "t", " ", "i", "s", " ", "y", "o", "u", "r">>,
      response |-> "I'm a conversational AI designed to help with various tasks."],
     [pattern |-> <<"c", "a", "n", " ", "y", "o", "u", " ", "h", "e", "l", "p">>,
      response |-> "Absolutely! I'd be happy to help. What do you need?"],
     [pattern |-> <<"t", "e", "l", "l", " ", "m", "e", " ", "a", "b", "o", "u", "t">>,
      response |-> "Sure! I'd be glad to share information about that topic."],
     [pattern |-> <<"h", "o", "w", " ", "d", "o", " ", "i">>,
      response |-> "Here's how you can do that step by step."],
     [pattern |-> <<"w", "h", "y", " ", "i", "s">>,
      response |-> "That's an interesting question. Let me explain the reasoning behind it."],
     [pattern |-> <<"w", "h", "a", "t", " ", "d", "o", " ", "y", "o", "u", " ", "t", "h", "i", "n", "k">>,
      response |-> "Based on my understanding, I believe..."],
     [pattern |-> <<"t", "h", "a", "n", "k", " ", "y", "o", "u">>,
      response |-> "You're welcome! Is there anything else I can help with?"],
     [pattern |-> <<"g", "o", "o", "d", "b", "y", "e">>,
      response |-> "It was great chatting with you! Feel free to come back anytime."],
     [pattern |-> <<"h", "e", "l", "l", "o">>,
      response |-> "Hey there! How can I assist you today?"] >>

Texts == DOMAIN Chars

\* the user inputs of a turn
TurnInputs == {"zzz", "help me", "tell me about x"}
\* the inputs of processRequest calls made outside a turn
DirectInputs == {"zzz"}
\* the user inputs of the first turns of a fresh server
FirstInputs == {"hello", "zzz"}
\* every user input of the model
UserInputs == TurnInputs \cup DirectInputs \cup FirstInputs

\* generatePattern's reduction of one message: the first five words of the
\* lower-cased content; two contents with the same reduction share a name
FiveWords(s) ==
  LET ws == split(toLowerCase(s))
  IN join(SubSeq(ws, 1, Min(5, Len(ws))))

FiveWordsName ==
  [n \in Texts |-> CHOOSE d \in Texts : FiveWords(Chars[d]) = FiveWords(Chars[n])]

\* hashInput / hashPattern(input): md5 of the lower-cased, trimmed input; two
\* inputs with the same digest share a name
HashName ==
  [n \in Texts |-> CHOOSE d \in Texts :
      trim(toLowerCase(Chars[d])) = trim(toLowerCase(Chars[n]))]

\* new Set(text.toLowerCase().split(' '))
WordSet ==
  [n \in Texts |-> LET ws == split(toLowerCase(Chars[n]))
                   IN {ws[i] : i \in 1..Len(ws)}]

\* calculateSimilarity of two texts
TextSimilarity ==
  [a \in Texts |-> [b \in Texts |-> calculateSimilarity(WordSet[a], WordSet[b])]]

\* the model matchPattern and learnFromInteraction select for an input
ModelOf ==
  [n \in UserInputs |-> FirstMatchingModel(trim(toLowerCase(Chars[n])))]

\* model.responses.findIndex(r => r.text === predicted) + 1
CandIndex(m, text) ==
  IF \E i \in 1..Len(CandText[m]) : CandText[m][i] = text
  THEN CHOOSE i \in 1..Len(CandText[m]) : CandText[m][i] = text
  ELSE 0

\* responses.sort((a, b) => b.authenticity - a.authenticity)[0]
BestFast(responses) ==
  LET i == CHOOSE j \in 1..Len(responses) :
              \A k \in 1..Len(responses) :
                 \/ responses[k].authenticity < responses[j].authenticity
                 \/ (responses[k].authenticity = responses[j].authenticity /\ j <= k)
  IN responses[i].text

\* template.pattern.test(input), case-insensitive
TemplateTest(t, s) ==
  \E alt \in t.alternatives :
     IF t.anchored THEN StartsWith(toLowerCase(s), alt)
     ELSE Includes(toLowerCase(s), alt)

\* the first index of a sequence whose element satisfies the test, or 0
FirstIndex(n, Test(_)) ==
  IF \E i \in 1..n : Test(i)
  THEN CHOOSE i \in 1..n : Test(i) /\ \A j \in 1..(i - 1) : ~Test(j)
  ELSE 0

\* a matcher that consults only the regular expressions
TemplatesOnly ==
  [n \in UserInputs |->
     LET TemplateHit(i) == TemplateTest(templates[i], Chars[n])
         t == FirstIndex(Len(templates), TemplateHit)
     IN IF t # 0 THEN templates[t].text ELSE ""]

\* getFastResponse(input): the text returned, or "" for null
getFastResponse ==
  [n \in UserInputs |->
     LET lowerInput == trim(toLowerCase(Chars[n]))
         FastHit(i) == Includes(lowerInput, fastResponses[i].key)
         TemplateHit(i) == TemplateTest(templates[i], Chars[n])
         f == FirstIndex(Len(fastResponses), FastHit)
         t == FirstIndex(Len(templates), TemplateHit)
     IN IF f # 0 THEN BestFast(fastResponses[f].responses)
        ELSE IF t # 0 THEN templates[t].text
        ELSE ""]

\* getPrediction(userInput): the response of the first pattern the input
\* includes, or "" for null
getPrediction ==
  [n \in UserInputs |->
     LET input == trim(toLowerCase(Chars[n]))
         Hit(i) == Includes(input, quickPatterns[i].pattern)
         q == FirstIndex(Len(quickPatterns), Hit)
     IN IF q # 0 THEN quickPatterns[q].response ELSE ""]

\* ------------------------------------------------------------------------
\* Parallel dispatcher (parallel-processor.ts) and the chat turn (server.ts)
\* ------------------------------------------------------------------------
NumReqs == 2
NumSessions == 1
MaxEnqueue == 4
DriftTurns == 22

maxConcurrent == 1            \* pool.maxConcurrent of the modelled pool
ConfidenceFloorPct == 70      \* prediction.confidence > 0.7, in percent
RaceScorePct == 80            \* fastest.value.authenticityScore || 0.8
QuickTTL == 60000
ContextTTL == 3600000
LearningTTL == 86400000

Reqs == 1..NumReqs
Sessions == 1..NumSessions
\* the raced providers, in the order of the promises array
Providers == 1..3
Latencies == {1, 2}
\* validation.authenticityResult.score, in percent
Scores == {80, 90}
Priorities == {"ultra", "high", "normal", "low"}
\* the priorities of processRequest calls made outside a turn; every chat
\* handler passes 'ultra'
DirectPriorities == {"high", "normal", "low"}

\* the response text of request r's call to provider p
RespText ==
  << <<"r1p1", "r1p2", "r1p3">>, <<"r2p1", "r2p2", "r2p3">>,
     <<"r3p1", "r3p2", "r3p3">>, <<"r4p1", "r4p2", "r4p3">> >>

priorityOrder == [ultra |-> 4, high |-> 3, normal |-> 2, low |-> 1]

comparePriority(p1, p2) == priorityOrder[p1] - priorityOrder[p2]

\* an insertion that ignores the priority: pool.queue.push(request)
AddToQueueAtTail(q, request) == Append(q, request)

\* addToQueue: before the first queued request of strictly lower priority
addToQueue(q, request) ==
  LET Lower(i) == comparePriority(request.priority, q[i].priority) > 0
      insertIndex == FirstIndex(Len(q), Lower)
  IN IF insertIndex = 0 THEN Append(q, request)
     ELSE SubSeq(q, 1, insertIndex - 1) \o <<request>> \o SubSeq(q, insertIndex, Len(q))

\* a processQueue that starts nothing
QueueLeftWaiting(q, proc) == [queue |-> q, processing |-> proc, started |-> <<>>]

\* processQueue: while there is capacity, shift the head and start it
RECURSIVE processQueue(_, _)
processQueue(q, proc) ==
  IF Cardinality(proc) < maxConcurrent /\ q # <<>>
  THEN LET rest == processQueue(Tail(q), proc \cup {Head(q).id})
           entry == [id |-> Head(q).id, priority |-> Head(q).priority,
                     waiting |-> {q[i] : i \in 1..Len(q)}]
       IN [rest EXCEPT !.started = <<entry>> \o @]
  ELSE [queue |-> q, processing |-> proc, started |-> <<>>]

\* generatePattern: the last three messages, each reduced to its role and
\* the first five words of its content
generatePattern(messages) ==
  LET n == Len(messages)
      recent == SubSeq(messages, Max(1, n - 2), n)
  IN [i \in 1..Len(recent) |-> <<recent[i].role, FiveWordsName[recent[i].content]>>]

\* the cache keys pattern:<md5(pattern)>, pred:/ctx:/learn:<md5(input)>
PatternKey(pattern) == <<"pattern", pattern>>
InputKey(kind, input) == <<kind, << <<"input", HashName[input]>> >> >>

\* cached values: an object with a response field, or a bare string
ObjectData(response, score) == [response |-> response, score |-> score, object |-> TRUE]
StringData(text) == [response |-> text, score |-> 0, object |-> FALSE]

\* the tiers as one value; the persistent tier is reachable here
Cache == [mem |-> memoryCache, store |-> redisStore, pre |-> preGenerated]

CacheLive(c, k, t) == MemLive(c.mem, k, t) \/ RedisLive(c.store, k, t)

CacheData(c, k, t) ==
  IF MemLive(c.mem, k, t) THEN c.mem[MemIndex(c.mem, k)].data ELSE c.store[k].data

\* get(key): hits++ on a memory hit, repopulation on a persistent-tier hit
CacheTouch(c, k, t) ==
  IF MemLive(c.mem, k, t) THEN [c EXCEPT !.mem = MemHit(c.mem, k)]
  ELSE IF RedisLive(c.store, k, t)
  THEN [c EXCEPT !.mem = Repopulate(c.mem, k, c.store[k].data, t)]
  ELSE c

\* set(key, data, ttl)
CacheSet(c, k, data, ttl, t) ==
  [c EXCEPT !.mem = SetMemory(c.mem, k, data, ttl, t),
            !.store = SetRedis(c.store, k, data, ttl, t, TRUE)]

NoHit == [hit |-> FALSE, response |-> ""]

HasCandidates(c, pattern) == pattern \in DOMAIN c.pre /\ c.pre[pattern] # <<>>

\* getResponsePattern: the best vetted candidate, else the cached entry's
\* response field ("" where the field is undefined)
getResponsePattern(c, pattern, t) ==
  IF HasCandidates(c, pattern)
  THEN [hit |-> TRUE, response |-> c.pre[pattern][1].response]
  ELSE IF CacheLive(c, PatternKey(pattern), t)
  THEN LET d == CacheData(c, PatternKey(pattern), t)
       IN [hit |-> TRUE, response |-> IF d.object THEN d.response ELSE ""]
  ELSE NoHit

\* the effect of getResponsePattern on the tiers
LookupTouch(c, pattern, t) ==
  IF HasCandidates(c, pattern) THEN c ELSE CacheTouch(c, PatternKey(pattern), t)

\* an insertion that forgets to sort: push, keep the first five
AddWithoutSort(pre, pattern, response, score, t) ==
  LET old == IF pattern \in DOMAIN pre THEN pre[pattern] ELSE <<>>
      pushed == Append(old, [response |-> response, authenticityScore |-> score,
                             timestamp |-> t])
      kept == SubSeq(pushed, 1, Min(MaxPreGenerated, Len(pushed)))
  IN [p \in DOMAIN pre \cup {pattern} |-> IF p = pattern THEN kept ELSE pre[p]]

\* addToPreGenerated: push, stable sort by descending score, keep five
addToPreGenerated(pre, pattern, response, score, t) ==
  LET old == IF pattern \in DOMAIN pre THEN pre[pattern] ELSE <<>>
      pushed == Append(old, [response |-> response, authenticityScore |-> score,
                             timestamp |-> t])
      Rank(i) == Cardinality({j \in 1..Len(pushed) :
                    \/ pushed[j].authenticityScore > pushed[i].authenticityScore
                    \/ (pushed[j].authenticityScore = pushed[i].authenticityScore /\ j < i)})
      sorted == [k \in 1..Len(pushed) |->
                   pushed[CHOOSE i \in 1..Len(pushed) : Rank(i) = k - 1]]
      kept == SubSeq(sorted, 1, Min(MaxPreGenerated, Len(sorted)))
  IN [p \in DOMAIN pre \cup {pattern} |-> IF p = pattern THEN kept ELSE pre[p]]

\* cacheResponsePattern(messages, response, authenticityScore)
cacheResponsePattern(c, pattern, response, score, t) ==
  LET c1 == CacheSet(c, PatternKey(pattern), ObjectData(response, score), PatternTTL, t)
  IN IF score > PreGenThresholdPct
     THEN [c1 EXCEPT !.pre = addToPreGenerated(c1.pre, pattern, response, score, t)]
     ELSE c1

NoCall == [status |-> "idle", latency |-> 0]
PendingCall == [status |-> "pending", latency |-> 0]
NoPrediction == [exists |-> FALSE, text |-> "", confidence |-> 0, source |-> ""]

NewReq ==
  [pc |-> "new", kind |-> "none", sess |-> 0, input |-> "", prio |-> "none",
   prediction |-> NoPrediction, calls |-> [p \in Providers |-> NoCall],
   response |-> "", source |-> "", outcome |-> "none", allFailed |-> FALSE,
   consulted |-> <<>>, fingerprint |-> <<>>, stored |-> <<>>, lookup |-> NoHit]

DispatchInit ==
  /\ sessions = [s \in 1..(NumSessions + NumReqs) |-> <<>>]
  /\ reqs = [r \in Reqs |-> NewReq]
  /\ queue = <<>>
  /\ processing = {}
  /\ dispatched = <<>>
  /\ nEnqueued = 0
  /\ learned = {}

Push(sess, s, role, content) ==
  [sess EXCEPT ![s] = Append(@, [role |-> role, content |-> content])]

\* the promise of processRequest (or the prediction stage) yields a result;
\* the results of the provider calls go out of scope
Resolve(rec, response, source) ==
  [rec EXCEPT !.response = response, !.source = source, !.outcome = "resolved",
              !.calls = [p \in Providers |-> NoCall],
              !.pc = IF rec.kind = "direct" THEN "done" ELSE "post"]

\* the promise of processRequest is rejected; a handler answers with an error
Reject(rec) ==
  [rec EXCEPT !.outcome = "rejected", !.calls = [p \in Providers |-> NoCall],
              !.pc = "done"]

\* the POST handler pushes the assistant message as soon as it has the
\* response; the socket handler pushes it after streaming and validation
PushOnReturn(sess, rec, response) ==
  IF rec.kind = "http" THEN Push(sess, rec.sess, "assistant", response) ELSE sess

\* processRequestImmediately up to its await: the calls are started
Start(rec) ==
  [rec EXCEPT !.pc = IF rec.prio = "ultra" THEN "racing" ELSE "single",
              !.calls = [p \in Providers |->
                           IF rec.prio = "ultra" \/ p = 1 THEN PendingCall ELSE NoCall]]

\* the requests in the model start in the order of their numbers
NextToStart(r) == reqs[r].pc = "new" /\ \A q \in 1..(r - 1) : reqs[q].pc # "new"

\* the finally block of processRequestImmediately for request r, whose new
\* record is rec: processing.delete, then processQueue
Finally(r, rec) ==
  LET pq == processQueue(queue, processing \ {r})
      startedIds == {pq.started[i].id : i \in 1..Len(pq.started)}
  IN /\ queue' = pq.queue
     /\ processing' = pq.processing
     /\ dispatched' = dispatched \o pq.started
     /\ reqs' = [q \in Reqs |-> IF q = r THEN rec
                                ELSE IF q \in startedIds THEN Start(reqs[q])
                                ELSE reqs[q]]

\* the handler of a chat message: push the user message, call predictResponse
TurnStart(r, s, input, kind) ==
  /\ NextToStart(r)
  /\ sessions' = Push(sessions, s, "user", input)
  /\ reqs' = [reqs EXCEPT ![r] =
        [NewReq EXCEPT !.pc = "predicting", !.kind = kind, !.sess = s,
                       !.input = input, !.prio = "ultra"]]
  /\ UNCHANGED <<queue, processing, dispatched, nEnqueued, learned>>
  /\ UNCHANGED <<now, cacheVars, poolVars, predVars, stream, templateService>>

\* predictResponse answers: the cache of prior predictions, then the
\* candidate i sampled from the matching model. A confident prediction ends
\* the turn; otherwise processRequest is called and computes the fingerprint
Predict(r, i) ==
  /\ reqs[r].pc = "predicting"
  /\ LET rec == reqs[r]
         key == InputKey("pred", rec.input)
         cached == CacheLive(Cache, key, now)
         m == ModelOf[rec.input]
         sampled == ~cached /\ m # 0
         prediction ==
           IF cached
           THEN LET d == CacheData(Cache, key, now)
                IN [exists |-> TRUE, text |-> IF d.object THEN d.response ELSE "",
                    confidence |-> 0, source |-> "cache"]
           ELSE IF m # 0
           THEN [exists |-> TRUE, text |-> CandText[m][i],
                 confidence |-> models[m].probability[i], source |-> "prediction"]
           ELSE NoPrediction
         hit == prediction.exists
                /\ prediction.confidence * 100 > ConfidenceFloorPct * Scale
         rec1 == [rec EXCEPT !.prediction = prediction,
                             !.consulted = <<[stage |-> "prediction", hit |-> hit]>>]
     IN /\ IF sampled
           THEN i \in 1..Len(models[m].probability) /\ models[m].probability[i] > 0
           ELSE i = 0
        /\ memoryCache' = CacheTouch(Cache, key, now).mem
        /\ models' = IF sampled THEN [models EXCEPT ![m].usage = @ + 1] ELSE models
        /\ IF hit /\ rec.kind = "ws"
           THEN /\ reqs' = [reqs EXCEPT ![r] =
                     [Resolve(rec1, prediction.text, "prediction") EXCEPT !.pc = "done"]]
                /\ UNCHANGED sessions
           ELSE IF hit
           THEN /\ reqs' = [reqs EXCEPT ![r] =
                     Resolve(rec1, prediction.text, prediction.source)]
                /\ sessions' = PushOnReturn(sessions, rec, prediction.text)
           ELSE /\ reqs' = [reqs EXCEPT ![r] =
                     [rec1 EXCEPT !.pc = "process",
                                  !.fingerprint = generatePattern(sessions[rec.sess])]]
                /\ UNCHANGED sessions
  /\ UNCHANGED <<queue, processing, dispatched, nEnqueued, learned>>
  /\ UNCHANGED <<now, redisStore, preGenerated, pending, lastSet, lastLookup,
                 nWrites, nLookups, poolVars, nLearn, stream, templateService>>

\* processRequest after the fingerprint was computed: tryFastPaths (cache,
\* template, quick prediction), then immediate processing or the queue.
\* rec is the request entering, sess the sessions at that time
TryAndDispatch(r, rec, sess) ==
  LET msgs == sess[rec.sess]
      look == getResponsePattern(Cache, rec.fingerprint, now)
      c1 == LookupTouch(Cache, rec.fingerprint, now)
      cacheHit == look.hit /\ look.response # ""
      userLast == msgs # <<>> /\ msgs[Len(msgs)].role = "user"
      content == msgs[Len(msgs)].content
      tmpl == IF userLast THEN getFastResponse[content] ELSE ""
      quick == IF userLast THEN getPrediction[content] ELSE ""
      stages ==
        <<[stage |-> "cache", hit |-> cacheHit]>>
        \o (IF ~cacheHit /\ userLast
            THEN <<[stage |-> "template", hit |-> tmpl # ""]>> ELSE <<>>)
        \o (IF ~cacheHit /\ userLast /\ tmpl = ""
            THEN <<[stage |-> "quick", hit |-> quick # ""]>> ELSE <<>>)
      fast == IF cacheHit THEN [response |-> look.response, source |-> "cache"]
              ELSE IF tmpl # "" THEN [response |-> tmpl, source |-> "template"]
              ELSE IF quick # "" THEN [response |-> quick, source |-> "cache"]
              ELSE [response |-> "", source |-> ""]
      c2 == IF ~cacheHit /\ tmpl = "" /\ quick # ""
            THEN CacheSet(c1, InputKey("pred", content), StringData(quick), QuickTTL, now)
            ELSE c1
      rec1 == [rec EXCEPT !.consulted = @ \o stages]
      rec2 == [rec1 EXCEPT !.consulted = @ \o <<[stage |-> "dispatch", hit |-> TRUE]>>]
  IN /\ memoryCache' = c2.mem
     /\ redisStore' = c2.store
     /\ IF fast.response # ""
        THEN /\ reqs' = [reqs EXCEPT ![r] = Resolve(rec1, fast.response, fast.source)]
             /\ sessions' = PushOnReturn(sess, rec, fast.response)
             /\ UNCHANGED <<queue, processing>>
        ELSE IF rec.prio = "ultra" \/ Cardinality(processing) < maxConcurrent
        THEN /\ reqs' = [reqs EXCEPT ![r] = Start(rec2)]
             /\ processing' = processing \cup {r}
             /\ sessions' = sess
             /\ UNCHANGED queue
        ELSE /\ reqs' = [reqs EXCEPT ![r] = [rec2 EXCEPT !.pc = "queued"]]
             /\ queue' = addToQueue(queue, [id |-> r, priority |-> rec.prio])
             /\ sessions' = sess
             /\ UNCHANGED processing
     /\ UNCHANGED <<dispatched, nEnqueued, learned>>
     /\ UNCHANGED <<now, preGenerated, pending, lastSet, lastLookup,
                    nWrites, nLookups, poolVars, predVars, stream, templateService>>

\* the turn's call of processRequest('ultra') resumes
ProcessRequest(r) ==
  /\ reqs[r].pc = "process"
  /\ TryAndDispatch(r, reqs[r], sessions)

\* processRequest called outside a turn, with its own message list
DirectRequest(r, prio, input) ==
  /\ NextToStart(r)
  /\ LET sess == Push(sessions, NumSessions + r, "user", input)
         rec == [NewReq EXCEPT !.kind = "direct", !.sess = NumSessions + r,
                               !.input = input, !.prio = prio,
                               !.fingerprint = generatePattern(sess[NumSessions + r])]
     IN TryAndDispatch(r, rec, sess)

Settled(calls) == \A p \in Providers : calls[p].status \in {"ok", "fail"}

Successful(calls) == {p \in Providers : calls[p].status = "ok"}

\* a race that counts as won only if every call succeeded
RaceAllSucceeded(calls) == Successful(calls) = Providers

\* successful.length > 0
RaceSucceeded(calls) == Successful(calls) # {}

\* successful.reduce((prev, curr) => curr.latency < prev.latency ? curr : prev)
Fastest(calls) ==
  CHOOSE p \in Successful(calls) : \A q \in Successful(calls) :
     \/ calls[p].latency < calls[q].latency
     \/ (calls[p].latency = calls[q].latency /\ p <= q)

\* processParallel after Promise.allSettled, with the results in calls:
\* cache the fastest success and suspend on the write, or throw
\* 'All parallel requests failed'
RaceSettled(r, calls) ==
  LET rec == [reqs[r] EXCEPT
                  !.calls = calls,
                  !.allFailed = \A p \in Providers : calls[p].status = "fail"]
      pattern == generatePattern(sessions[rec.sess])
      text == RespText[r][Fastest(calls)]
      c1 == cacheResponsePattern(Cache, pattern, text, RaceScorePct, now)
  IN IF RaceSucceeded(calls)
     THEN /\ memoryCache' = c1.mem
          /\ redisStore' = c1.store
          /\ preGenerated' = c1.pre
          /\ reqs' = [reqs EXCEPT ![r] =
                [rec EXCEPT !.pc = "caching", !.response = text, !.stored = pattern]]
          /\ UNCHANGED <<queue, processing, dispatched>>
     ELSE /\ Finally(r, Reject(rec))
          /\ UNCHANGED <<memoryCache, redisStore, preGenerated>>

\* a raced provider call settles; latency is Date.now() - startTime, so no
\* call reports less than a call that settled before it. When it is the
\* last of the three, Promise.allSettled resolves and processParallel
\* continues in the same turn of the event loop
CallSettle(r, p, ok, lat) ==
  /\ reqs[r].pc = "racing"
  /\ reqs[r].calls[p].status = "pending"
  /\ \A q \in Providers : reqs[r].calls[q].latency <= lat
  /\ LET calls == [reqs[r].calls EXCEPT ![p] =
                     IF ok THEN [status |-> "ok", latency |-> lat]
                     ELSE [status |-> "fail", latency |-> 0]]
     IN IF Settled(calls)
        THEN RaceSettled(r, calls)
        ELSE /\ reqs' = [reqs EXCEPT ![r].calls = calls]
             /\ UNCHANGED <<queue, processing, dispatched>>
             /\ UNCHANGED <<memoryCache, redisStore, preGenerated>>
  /\ UNCHANGED <<sessions, nEnqueued, learned>>
  /\ UNCHANGED <<now, pending, lastSet, lastLookup, nWrites, nLookups,
                 poolVars, predVars, stream, templateService>>

\* processParallel returns {...fastest, source: 'parallel'}; the request
\* resolves, the finally block runs, the caller continues. lookup records
\* what getResponsePattern answers for the request's fingerprint just then
DispatchReturn(r) ==
  /\ reqs[r].pc = "caching"
  /\ LET rec == [reqs[r] EXCEPT
                    !.lookup = getResponsePattern(Cache, reqs[r].fingerprint, now)]
     IN /\ Finally(r, Resolve(rec, rec.response, "parallel"))
        /\ sessions' = PushOnReturn(sessions, rec, rec.response)
  /\ UNCHANGED <<nEnqueued, learned>>
  /\ UNCHANGED <<now, cacheVars, poolVars, predVars, stream, templateService>>

\* processSingle: the one call of a non-ultra request settles
SingleSettle(r, ok) ==
  /\ reqs[r].pc = "single"
  /\ LET rec == [reqs[r] EXCEPT
                    !.calls[1].status = IF ok THEN "ok" ELSE "fail",
                    !.allFailed = ~ok,
                    !.lookup = getResponsePattern(Cache, reqs[r].fingerprint, now)]
     IN IF ok
        THEN Finally(r, Resolve(rec, RespText[r][1], "ai"))
        ELSE Finally(r, Reject(rec))
  /\ UNCHANGED <<sessions, nEnqueued, learned>>
  /\ UNCHANGED <<now, cacheVars, poolVars, predVars, stream, templateService>>

\* the rest of the handler: validation (score), learnFromInteraction with
\* its ctx: and learn: entries, cacheResponsePattern on the session's messages
TurnFinish(r, score) ==
  /\ reqs[r].pc = "post"
  /\ LET rec == reqs[r]
         sess == IF rec.kind = "ws"
                 THEN Push(sessions, rec.sess, "assistant", rec.response)
                 ELSE sessions
         predicted == rec.prediction.text
         m == ModelOf[rec.input]
         similarity == TextSimilarity[predicted][rec.response]
         c1 == CacheSet(Cache, InputKey("ctx", rec.input),
                        ObjectData(rec.response, 0), ContextTTL, now)
         c2 == CacheSet(c1, InputKey("learn", rec.input),
                        ObjectData(rec.response, 0), LearningTTL, now)
         c3 == cacheResponsePattern(c2, generatePattern(sess[rec.sess]),
                                    rec.response, score, now)
     IN /\ sessions' = sess
        /\ models' = IF predicted # "" /\ m # 0
                     THEN [models EXCEPT
                             ![m].accuracy = UpdateAccuracy(@, similarity),
                             ![m].probability = updateResponseProbabilities(
                                 @, CandIndex(m, predicted), similarity)]
                     ELSE models
        /\ learned' = learned \cup {<<rec.input, rec.response>>}
        /\ memoryCache' = c3.mem
        /\ redisStore' = c3.store
        /\ preGenerated' = c3.pre
        /\ reqs' = [reqs EXCEPT ![r].pc = "done"]
  /\ nLearn' = nLearn + 1
  /\ UNCHANGED <<queue, processing, dispatched, nEnqueued>>
  /\ UNCHANGED <<now, pending, lastSet, lastLookup, nWrites, nLookups, poolVars, stream, templateService>>

\* addToQueue called with a request of any priority
Enqueue(p) ==
  /\ nEnqueued < MaxEnqueue
  /\ nEnqueued' = nEnqueued + 1
  /\ queue' = addToQueue(queue, [id |-> nEnqueued + 1, priority |-> p])
  /\ UNCHANGED <<sessions, reqs, processing, dispatched, learned>>
  /\ UNCHANGED <<now, cacheVars, poolVars, predVars, stream, templateService>>

\* processQueue called while the pool has capacity
Drain ==
  /\ queue # <<>>
  /\ Cardinality(processing) < maxConcurrent
  /\ LET pq == processQueue(queue, processing)
     IN /\ queue' = pq.queue
        /\ processing' = pq.processing
        /\ dispatched' = dispatched \o pq.started
  /\ UNCHANGED <<sessions, reqs, nEnqueued, learned>>
  /\ UNCHANGED <<now, cacheVars, poolVars, predVars, stream, templateService>>

\* a request in process finishes: processing.delete, then processQueue
Complete(id) ==
  /\ id \in processing
  /\ LET pq == processQueue(queue, processing \ {id})
     IN /\ queue' = pq.queue
        /\ processing' = pq.processing
        /\ dispatched' = dispatched \o pq.started
  /\ UNCHANGED <<sessions, reqs, nEnqueued, learned>>
  /\ UNCHANGED <<now, cacheVars, poolVars, predVars, stream, templateService>>

\* prediction models after DriftTurns turns whose prediction for "help me"
\* (candidates 2 and 3 in turn) differed from the answer given
DriftSimilarity(m, i) == TextSimilarity[CandText[m][i]][getFastResponse["help me"]]

RECURSIVE Drift(_, _)
Drift(ms, n) ==
  IF n = 0 THEN ms
  ELSE LET prev == Drift(ms, n - 1)
           m == ModelOf["help me"]
       IN [prev EXCEPT
             ![m].usage = @ + 1,
             ![m].accuracy = UpdateAccuracy(@, DriftSimilarity(m, 2 + (n % 2))),
             ![m].probability = updateResponseProbabilities(
                 @, 2 + (n % 2), DriftSimilarity(m, 2 + (n % 2)))]

LearnedModels == Drift(InitialModels, DriftTurns)

\* time passes
Advance(t) ==
  /\ t > now
  /\ now' = t

\* ------------------------------------------------------------------------
\* Stream optimizer (utils/stream-optimizer.ts)
\* ------------------------------------------------------------------------

NumTransforms == 3
MaxAdapts == 2
StreamHorizon == 7

\* the Transform streams made by createTransform of the one optimizer
Transforms == 1..NumTransforms

\* the constructor: the defaults, overridden by the fields of the argument
DefaultConfig ==
  [bufferSize |-> 1000, batchSize |-> 10, batchTimeout |-> 5, enableBatching |-> TRUE]

\* the optimizer the server constructs
ServerConfig ==
  [bufferSize |-> 2048, batchSize |-> 20, batchTimeout |-> 2, enableBatching |-> TRUE]

\* the configurations the optimizer starts with in the model
StreamConfigs ==
  { DefaultConfig, ServerConfig,
    [DefaultConfig EXCEPT !.batchSize = 3],
    [DefaultConfig EXCEPT !.batchSize = 2, !.batchTimeout = 3],
    [DefaultConfig EXCEPT !.enableBatching = FALSE] }

NoFlush == [kind |-> "none", waited |-> 0, size |-> 0, by |-> 0, owners |-> <<>>]

\* buffer holds the time each buffered fragment was pushed and owners the
\* transform that pushed it; blocked are the transforms whose callback has
\* not been called; ended those whose input has ended and finished those
\* whose end-of-input callback has been called
NewStream(config) ==
  [config |-> config, buffer |-> <<>>, owners |-> <<>>, timerArmed |-> FALSE,
   timerAt |-> 0, timerOwner |-> 0, blocked |-> {}, ended |-> {},
   finished |-> {}, nAdapt |-> 0, lastFlush |-> NoFlush]

StreamInit == stream = NewStream(DefaultConfig)

LatencyLimit == 100
ThroughputLimit == 1000
BatchSizeStep == 5
BatchSizeCap == 50
BufferSizeStep == 100
BufferSizeCap == 2000
BatchSizeCut == 2
BatchSizeFloor == 1
BatchTimeoutCut == 1
BatchTimeoutFloor == 1

\* adaptConfig: the first if
AdaptForLatency(config, latency) ==
  IF latency > LatencyLimit
    THEN [config EXCEPT
            !.batchSize = Min(BatchSizeCap, @ + BatchSizeStep),
            !.bufferSize = Min(BufferSizeCap, @ + BufferSizeStep)]
    ELSE config

\* adaptConfig: both ifs, in the order of the code
adaptConfig(config, latency, throughput) ==
  LET c == AdaptForLatency(config, latency)
  IN IF throughput < ThroughputLimit
       THEN [c EXCEPT
               !.batchSize = Max(BatchSizeFloor, @ - BatchSizeCut),
               !.batchTimeout = Max(BatchTimeoutFloor, @ - BatchTimeoutCut)]
       ELSE c

\* flushBatch(callback) with the callback of transform t: the timer is
\* cleared; a buffer that holds fragments is joined, emptied and handed to
\* the callback, which lets transform t go on
flushBatch(st, t, kind, time) ==
  LET cleared == [st EXCEPT !.timerArmed = FALSE, !.timerAt = 0, !.timerOwner = 0]
  IN IF Len(st.buffer) > 0
       THEN [cleared EXCEPT
               !.buffer = <<>>,
               !.owners = <<>>,
               !.blocked = @ \ {t},
               !.finished = IF kind = "end" THEN @ \cup {t} ELSE @,
               !.lastFlush = [kind |-> kind, waited |-> time - st.buffer[1],
                              size |-> Len(st.buffer), by |-> t,
                              owners |-> st.owners]]
       ELSE cleared

\* processChunk that buffers the fragment and arms no timer
ProcessWithoutTimer(st, t, time) ==
  IF st.config.enableBatching
    THEN LET pushed == [st EXCEPT !.buffer = Append(@, time), !.owners = Append(@, t),
                                  !.blocked = @ \cup {t}]
         IN IF Len(pushed.buffer) >= st.config.batchSize
              THEN flushBatch(pushed, t, "size", time)
              ELSE pushed
    ELSE st

\* processChunk(chunk, callback) of transform t at the given time
processChunk(st, t, time) ==
  IF st.config.enableBatching
    THEN LET pushed == [st EXCEPT !.buffer = Append(@, time), !.owners = Append(@, t),
                                  !.blocked = @ \cup {t}]
         IN IF Len(pushed.buffer) >= st.config.batchSize
              THEN flushBatch(pushed, t, "size", time)
              ELSE IF ~st.timerArmed
                     THEN [pushed EXCEPT !.timerArmed = TRUE,
                                         !.timerAt = time + st.config.batchTimeout,
                                         !.timerOwner = t]
                     ELSE pushed
    ELSE st

\* a stream hands its next chunk to transform(): only once the callback of
\* the chunk before has been called
ProcessChunk(t) ==
  /\ t \notin stream.blocked
  /\ t \notin stream.ended
  /\ stream' = processChunk(stream, t, now)
  /\ UNCHANGED <<now, cacheVars, poolVars, predVars, dispVars, templateService>>

\* the batch timer fires: flushBatch with the callback it was armed with
BatchTimerFires ==
  /\ stream.timerArmed
  /\ now >= stream.timerAt
  /\ stream' = flushBatch(stream, stream.timerOwner, "timer", now)
  /\ UNCHANGED <<now, cacheVars, poolVars, predVars, dispVars, templateService>>

\* a stream ends: the flush of its Transform, once its chunks are through
StreamEnds(t) ==
  /\ t \notin stream.blocked
  /\ t \notin stream.ended
  /\ stream' = [flushBatch(stream, t, "end", now) EXCEPT !.ended = @ \cup {t}]
  /\ UNCHANGED <<now, cacheVars, poolVars, predVars, dispVars, templateService>>

AdaptConfig(latency, throughput) ==
  /\ stream.nAdapt < MaxAdapts
  /\ stream' = [stream EXCEPT !.config = adaptConfig(@, latency, throughput),
                              !.nAdapt = @ + 1]
  /\ UNCHANGED <<now, cacheVars, poolVars, predVars, dispVars, templateService>>

\* the clock of the stream specification: a timer fires when it expires
StreamTick ==
  /\ now < StreamHorizon
  /\ stream.timerArmed => now + 1 <= stream.timerAt
  /\ Advance(now + 1)
  /\ UNCHANGED <<cacheVars, poolVars, predVars, dispVars, stream, templateService>>

\* ------------------------------------------------------------------------
\* Template rules that change (part_001: addCustomTemplate, updateTemplate)
\* ------------------------------------------------------------------------

MaxTemplateCalls == 3

\* the categories of initializeTemplates, in the Map's insertion order, and
\* the category of each of its templates
InitialCategories == <<"greeting", "question", "help", "casual", "technical", "creative">>
CategoryOf == <<"greeting", "greeting", "question", "question", "question",
                "help", "casual", "casual", "technical", "creative">>

\* the elements of sequence q that satisfy Keep, in order
RECURSIVE Filter(_, _)
Filter(q, keep) ==
  IF q = <<>> THEN <<>>
  ELSE IF Head(q) \in keep THEN <<Head(q)>> \o Filter(Tail(q), keep)
       ELSE Filter(Tail(q), keep)

\* this.templates after initializeTemplates: one entry per category
InitialTemplates ==
  [c \in 1..Len(InitialCategories) |->
     [category |-> InitialCategories[c],
      list |-> Filter(templates,
                 {templates[i] : i \in {j \in 1..Len(templates) :
                                          CategoryOf[j] = InitialCategories[c]}})]]

NoMatchYet == [input |-> <<>>, phase |-> "none", id |-> "", priority |-> 0]

TemplateInit ==
  templateService =
    [templates |-> InitialTemplates, last |-> NoMatchYet, nMatches |-> 0, nCalls |-> 0]

\* the index of the Map entry of a category, 0 if there is none
CategoryIndex(tmap, category) ==
  IF \E c \in 1..Len(tmap) : tmap[c].category = category
  THEN CHOOSE c \in 1..Len(tmap) : tmap[c].category = category
  ELSE 0

\* addTemplate(category, template): a new category goes to the end of the Map
addTemplate(tmap, category, template) ==
  LET c == CategoryIndex(tmap, category)
  IN IF c = 0
       THEN Append(tmap, [category |-> category, list |-> <<template>>])
       ELSE [tmap EXCEPT ![c].list = Append(@, template)]

\* updateTemplate(category, templateId, {priority}): the first template of
\* the category with that id
updateTemplate(tmap, category, templateId, priority) ==
  LET c == CategoryIndex(tmap, category)
  IN IF c = 0 THEN tmap
     ELSE LET Found(i) == tmap[c].list[i].id = templateId
              i == FirstIndex(Len(tmap[c].list), Found)
          IN IF i = 0 THEN tmap
             ELSE [tmap EXCEPT ![c].list[i].priority = priority]

\* templates.sort((a, b) => a.priority - b.priority): stable, in place
RECURSIVE InsertByPriority(_, _)
InsertByPriority(sorted, t) ==
  IF sorted = <<>> THEN <<t>>
  ELSE IF Head(sorted).priority <= t.priority
         THEN <<Head(sorted)>> \o InsertByPriority(Tail(sorted), t)
         ELSE <<t>> \o sorted

RECURSIVE SortByPriority(_)
SortByPriority(list) ==
  IF list = <<>> THEN <<>>
  ELSE InsertByPriority(SortByPriority(SubSeq(list, 1, Len(list) - 1)), list[Len(list)])

\* the first template of a sorted list whose pattern matches, 0 if none
FirstMatch(list, input) ==
  LET Hit(i) == TemplateTest(list[i], input)
  IN FirstIndex(Len(list), Hit)

\* the first category, in the Map's order, one of whose templates matches
FirstCategory(tmap, input) ==
  LET Hit(c) == FirstMatch(SortByPriority(tmap[c].list), input) # 0
  IN FirstIndex(Len(tmap), Hit)

\* the second loop of getFastResponse: the template it fills in
matchTemplate(tmap, input) ==
  LET c == FirstCategory(tmap, input)
  IN IF c = 0 THEN [NoMatchYet EXCEPT !.input = input]
     ELSE LET sorted == SortByPriority(tmap[c].list)
              t == sorted[FirstMatch(sorted, input)]
          IN [input |-> input, phase |-> "template", id |-> t.id,
              priority |-> t.priority]

\* the lists getFastResponse has sorted in place when it returns
SortedUpTo(tmap, input) ==
  LET c == FirstCategory(tmap, input)
      last == IF c = 0 THEN Len(tmap) ELSE c
  IN [k \in 1..Len(tmap) |->
        IF k <= last THEN [tmap[k] EXCEPT !.list = SortByPriority(@)] ELSE tmap[k]]

\* getFastResponse(input): the fast responses first, then the templates
GetFastResponse(input) ==
  /\ templateService.nCalls < MaxTemplateCalls
  /\ LET lowerInput == trim(toLowerCase(input))
         FastHit(i) == Includes(lowerInput, fastResponses[i].key)
     IN IF FirstIndex(Len(fastResponses), FastHit) # 0
          THEN templateService' =
                 [templateService EXCEPT
                    !.last = [NoMatchYet EXCEPT !.input = input, !.phase = "fast"],
                    !.nMatches = @ + 1,
                    !.nCalls = @ + 1]
          ELSE templateService' =
                 [templates |-> SortedUpTo(templateService.templates, input),
                  last |-> matchTemplate(templateService.templates, input),
                  nMatches |-> templateService.nMatches + 1,
                  nCalls |-> templateService.nCalls + 1]
  /\ UNCHANGED <<now, cacheVars, poolVars, predVars, dispVars, stream>>

UpdateTemplate(category, templateId, priority) ==
  /\ templateService.nCalls < MaxTemplateCalls
  /\ templateService' =
       [templateService EXCEPT
          !.templates = updateTemplate(@, category, templateId, priority),
          !.nCalls = @ + 1]
  /\ UNCHANGED <<now, cacheVars, poolVars, predVars, dispVars, stream>>

AddCustomTemplate(category, template) ==
  /\ templateService.nCalls < MaxTemplateCalls
  /\ templateService' =
       [templateService EXCEPT
          !.templates = addTemplate(@, category, template),
          !.nCalls = @ + 1]
  /\ UNCHANGED <<now, cacheVars, poolVars, predVars, dispVars, stream>>

vars == <<now, cacheVars, poolVars, predVars, dispVars, stream, templateService>>

Init ==
  /\ now = 0
  /\ CacheInit
  /\ PoolInit
  /\ PredInit
  /\ DispatchInit
  /\ StreamInit
  /\ TemplateInit

\* the clock of the cache specification
CacheTick(t) ==
  /\ Advance(t)
  /\ UNCHANGED <<cacheVars, poolVars, predVars, dispVars, stream, templateService>>

\* the clock of the pool specification: timers run between macrotasks
PoolTick(t) ==
  /\ NoCreation
  /\ Advance(t)
  /\ UNCHANGED <<cacheVars, poolVars, predVars, dispVars, stream, templateService>>

NextCache ==
  \/ \E k \in Keys, ttl \in TTLs, ok \in BOOLEAN : Set(k, ttl, ok)
  \/ \E k \in Keys : GetMemoryHit(k)
  \/ \E k \in Keys, ok \in BOOLEAN : GetSuspend(k, ok)
  \/ \E ks \in SUBSET Keys, ok \in BOOLEAN : BatchGetStart(ks, ok)
  \/ LookupResume
  \/ Sweep
  \/ \E t \in CacheInstants : CacheTick(t)

SpecCache == Init /\ [][NextCache]_vars

NextPool ==
  \/ \E c \in Callers, viaExecute \in BOOLEAN : GetConnection(c, viaExecute)
  \/ \E c \in Callers : CreateFinish(c)
  \/ \E c \in Callers : WaiterCheck(c)
  \/ \E c \in Callers : WaiterTimeout(c)
  \/ ZombieCheck
  \/ \E c \in Callers, ok \in BOOLEAN : RequestDone(c, ok)
  \/ \E c \in Callers : Release(c)
  \/ Cleanup
  \/ \E t \in PoolInstants : PoolTick(t)

SpecPool == Init /\ [][NextPool]_vars

Words == (SUBSET (1..NumTokens)) \ {{}}

NextPred ==
  \/ \E input \in Inputs, i \in 0..4, pw \in Words, aw \in Words : Learn(input, i, pw, aw)
  \/ \E input \in Inputs : LearnNothing(input)

SpecPred == Init /\ [][NextPred]_vars

NextQueue ==
  \/ \E p \in Priorities : Enqueue(p)
  \/ Drain
  \/ \E id \in 1..MaxEnqueue : Complete(id)

SpecQueue == Init /\ [][NextQueue]_vars

\* the dispatcher starts with the models as DriftTurns earlier turns left
\* them
InitDispatch ==
  /\ now = 0
  /\ CacheInit
  /\ PoolInit
  /\ models = LearnedModels
  /\ nLearn = 0
  /\ DispatchInit
  /\ StreamInit
  /\ TemplateInit

NextDispatch ==
  \/ \E r \in Reqs, s \in Sessions, input \in TurnInputs, kind \in {"http", "ws"} :
        TurnStart(r, s, input, kind)
  \/ \E r \in Reqs, i \in 0..4 : Predict(r, i)
  \/ \E r \in Reqs : ProcessRequest(r)
  \/ \E r \in Reqs, prio \in DirectPriorities, input \in DirectInputs :
        DirectRequest(r, prio, input)
  \/ \E r \in Reqs, p \in Providers, ok \in BOOLEAN, lat \in Latencies :
        CallSettle(r, p, ok, lat)
  \/ \E r \in Reqs : DispatchReturn(r)
  \/ \E r \in Reqs, ok \in BOOLEAN : SingleSettle(r, ok)
  \/ \E r \in Reqs, score \in Scores : TurnFinish(r, score)

SpecDispatch == InitDispatch /\ [][NextDispatch]_vars

\* the first turns of a fresh server, through the POST handler: empty
\* tiers, the models of initializeModels; the provider calls all report the
\* same latency
NextFresh ==
  \/ \E r \in Reqs, s \in Sessions, input \in FirstInputs :
        TurnStart(r, s, input, "http")
  \/ \E r \in Reqs, i \in 0..4 : Predict(r, i)
  \/ \E r \in Reqs : ProcessRequest(r)
  \/ \E r \in Reqs, p \in Providers, ok \in BOOLEAN : CallSettle(r, p, ok, 1)
  \/ \E r \in Reqs : DispatchReturn(r)
  \/ \E r \in Reqs, score \in Scores : TurnFinish(r, score)

SpecFresh == Init /\ [][NextFresh]_vars

\* C1: a value written by set(k, v, ttl) at time t, and not written again,
\* is returned by no get or batchGet issued later than t + ttl.
C1_NoStaleValue ==
  \A k \in DOMAIN lastLookup.results :
     (/\ lastSet[k].data # None
      /\ lastLookup.issuedAt > lastSet[k].at + lastSet[k].ttl)
       => lastLookup.results[k] # lastSet[k].data

\* C2: the pool of a (provider, model) pair never holds more live
\* connections than the pair's configured maxConnections.
C2_PoolWithinCapacity == Len(pool) <= maxConnections

\* C3: a pooled connection is held by at most one caller at a time.
C3_NoSharedConnection ==
  \A c1, c2 \in Callers :
     (c1 # c2 /\ callers[c1].pc = "holding" /\ callers[c2].pc = "holding")
       => callers[c1].conn # callers[c2].conn

\* two callers hold connections, one of them handed out by the reuse scan
\* and one by a blocked waiter's check
C3_Witness ==
  /\ metrics.reused > 0
  /\ \E c1, c2 \in Callers :
        /\ c1 # c2
        /\ callers[c1].pc = "holding"
        /\ callers[c2].pc = "holding"
        /\ callers[c2].waitStart > 0

\* C4: in every prediction model, initially and after any sequence of
\* learn calls, the candidate probabilities sum to 1 within the rounding
\* tolerance (half a unit per candidate).
C4_ProbabilitiesSumToOne ==
  \A m \in 1..Len(models) :
     LET total == SumSeq(models[m].probability)
     IN /\ total >= Scale - Len(models[m].probability)
        /\ total <= Scale + Len(models[m].probability)

\* learn calls have adjusted and renormalized a model
C4_Witness ==
  /\ nLearn = MaxLearn
  /\ \E m \in 1..Len(models) :
        /\ models[m].probability # InitialModels[m].probability
        /\ \E i \in 1..Len(models[m].probability) :
              models[m].probability[i] > InitialModels[m].probability[i] + Scale \div 100

\* a goes before b: a higher priority class, or the same class and an
\* earlier arrival
Before(a, b) ==
  \/ priorityOrder[a.priority] > priorityOrder[b.priority]
  \/ (priorityOrder[a.priority] = priorityOrder[b.priority] /\ a.id < b.id)

DispatchedIds == {dispatched[d].id : d \in 1..Len(dispatched)}

PositionOf(id) == CHOOSE d \in 1..Len(dispatched) : dispatched[d].id = id

\* the requests 1, 2, 3 arrived as low, ultra, normal and waited together
LowUltraNormal ==
  \E d \in 1..Len(dispatched) :
     {[id |-> 1, priority |-> "low"], [id |-> 2, priority |-> "ultra"],
      [id |-> 3, priority |-> "normal"]} \subseteq dispatched[d].waiting

\* C5: the work queue is ordered by priority class and, within a class, by
\* arrival; every drain dispatches the request that goes before all the
\* others waiting; [low, ultra, normal] is dispatched as [ultra, normal, low].
C5_PriorityThenArrival ==
  /\ \A i, j \in 1..Len(queue) : i < j => Before(queue[i], queue[j])
  /\ \A d \in 1..Len(dispatched) : \A w \in dispatched[d].waiting :
        w.id # dispatched[d].id => Before(dispatched[d], w)
  /\ (LowUltraNormal /\ {1, 2, 3} \subseteq DispatchedIds)
       => (PositionOf(2) < PositionOf(3) /\ PositionOf(3) < PositionOf(1))

\* low, ultra, normal were enqueued in this order and all three dispatched
C5_Witness ==
  /\ LowUltraNormal
  /\ {1, 2, 3} \subseteq DispatchedIds

\* C6: an ultra dispatch does not wait for the remaining raced calls once
\* one of them has succeeded: no request is left in the race while it has a
\* successful call.
C6_ResolvesOnFirstSuccess ==
  \A r \in Reqs : reqs[r].pc = "racing" => Successful(reqs[r].calls) = {}

\* C7: an ultra dispatch is rejected exactly when every raced call failed;
\* a race in which only some calls failed goes on to a result.
C7_FailsIffAllFailed ==
  \A r \in Reqs : reqs[r].prio = "ultra" =>
     /\ (reqs[r].outcome = "rejected") <=> reqs[r].allFailed
     /\ reqs[r].pc = "caching" => reqs[r].outcome # "rejected"

\* one ultra dispatch was rejected after three failures while another, with
\* a failed and a successful call, is on its way to a result
C7_Witness ==
  \E r1, r2 \in Reqs :
     /\ reqs[r1].prio = "ultra" /\ reqs[r1].outcome = "rejected"
     /\ reqs[r2].pc = "caching"
     /\ \E p, q \in Providers :
           reqs[r2].calls[p].status = "fail" /\ reqs[r2].calls[q].status = "ok"

\* C8: a raced ultra request gets the response of the successful provider
\* with the smallest latency, tagged 'parallel', and when the dispatch
\* returns, a cache lookup for the request's fingerprint yields that response.
C8_FastestCachedAtReturn ==
  \A r \in Reqs :
     /\ reqs[r].pc = "caching" =>
          \E p \in Successful(reqs[r].calls) :
             /\ reqs[r].response = RespText[r][p]
             /\ \A q \in Successful(reqs[r].calls) :
                   reqs[r].calls[p].latency <= reqs[r].calls[q].latency
     /\ (reqs[r].prio = "ultra" /\ reqs[r].outcome = "resolved"
         /\ reqs[r].stored # <<>>) =>
          /\ reqs[r].source = "parallel"
          /\ reqs[r].lookup = [hit |-> TRUE, response |-> reqs[r].response]

\* C9: after a dispatch that succeeded through a provider call, at any
\* priority, the request's fingerprint is cached with the winning response
\* and the prediction engine has received the (input, response) pair.
C9_SuccessFeedsCacheAndLearning ==
  \A r \in Reqs :
     (reqs[r].pc = "done" /\ reqs[r].outcome = "resolved"
      /\ reqs[r].source \in {"parallel", "ai"}) =>
        /\ reqs[r].lookup = [hit |-> TRUE, response |-> reqs[r].response]
        /\ <<reqs[r].input, reqs[r].response>> \in learned

StageRank == [prediction |-> 1, cache |-> 2, template |-> 3, quick |-> 4, dispatch |-> 5]

\* C10: within a turn the stages are consulted in the order prediction,
\* cache, template, dispatch, each only after the earlier ones reported a
\* miss; a provider call is issued only after prediction, cache and template
\* each reported a miss.
C10_StagesInOrder ==
  \A r \in Reqs : reqs[r].kind \in {"http", "ws"} =>
     LET c == reqs[r].consulted
     IN /\ \A i, j \in 1..Len(c) :
              i < j => (StageRank[c[i].stage] < StageRank[c[j].stage] /\ ~c[i].hit)
        /\ (\E i \in 1..Len(c) : c[i].stage = "dispatch") =>
              \A st \in {"prediction", "cache", "template"} :
                 \E i \in 1..Len(c) : c[i].stage = st /\ ~c[i].hit

\* the first request is a turn of its own: no other request has started
AloneFirst == \A q \in Reqs : q # 1 => reqs[q].pc = "new"

\* the greeting variants of the Template Matcher with authenticity >= 0.9
GoodGreetings ==
  {fastResponses[1].responses[i].text : i \in
     {j \in 1..Len(fastResponses[1].responses) :
        fastResponses[1].responses[j].authenticity >= 90}}

\* C11: on a fresh server a turn "hello" is answered by the Template Matcher
\* with a greeting variant of authenticity at least 0.9, and no provider
\* call is made during the turn.
C11_HelloFromTemplate ==
  (AloneFirst /\ reqs[1].input = "hello") =>
     /\ reqs[1].pc \in {"predicting", "process", "post", "done"}
     /\ \A i \in 1..Len(reqs[1].consulted) : reqs[1].consulted[i].stage # "dispatch"
     /\ reqs[1].pc \in {"post", "done"} =>
           /\ reqs[1].outcome = "resolved"
           /\ reqs[1].source = "template"
           /\ reqs[1].response \in GoodGreetings

\* a "hello" turn ran to its end on a fresh server
C11_Witness ==
  /\ AloneFirst
  /\ reqs[1].input = "hello"
  /\ reqs[1].pc = "done"
  /\ reqs[1].source = "template"

\* request r1 was answered by an upstream dispatch
AnsweredUpstream(r1) ==
  reqs[r1].outcome = "resolved" /\ reqs[r1].source \in {"ai", "parallel"}

\* C12: when a conversation is submitted again after its first submission
\* was answered by an upstream dispatch, whatever the priority classes, the
\* second submission is answered from the cache, with source 'cache' and
\* without a provider call.
C12_SecondFromCache ==
  [][\A r1, r2 \in Reqs :
       (/\ AnsweredUpstream(r1)
        /\ reqs[r2].pc = "new"
        /\ reqs'[r2].kind = "direct"
        /\ reqs'[r2].fingerprint = reqs[r1].fingerprint)
         => (/\ reqs'[r2].outcome = "resolved"
             /\ reqs'[r2].source = "cache"
             /\ \A i \in 1..Len(reqs'[r2].consulted) :
                   reqs'[r2].consulted[i].stage # "dispatch")]_vars

\* the ultra requests with a call to provider p in flight
InFlight(p) ==
  {r \in Reqs : reqs[r].prio = "ultra" /\ reqs[r].calls[p].status = "pending"}

\* C13: with capacity 1 for a (provider, model) pair, two concurrent ultra
\* requests never both have a provider call to that pair in flight: the
\* second waits until the first has finished.
C13_OneCallInFlight ==
  \A p \in Providers : Cardinality(InFlight(p)) <= 1

\* the acquires that complete in this step
Acquired(c) == callers[c].pc # "holding" /\ callers'[c].pc = "holding"

\* C14: a connection whose requestCount has reached maxRequests is never
\* returned by a later acquire, neither by the reuse scan nor to a waiter.
C14_ExhaustedNeverReturned ==
  [][\A c \in Callers :
       Acquired(c) =>
         LET i == PoolIndex(pool, callers'[c].conn)
         IN i = 0 \/ pool[i].requestCount < pool[i].maxRequests]_vars


\* C15: a blocked acquire ends in exactly one way, with a connection or with
\* the timeout error: once it has failed with the timeout, its wait takes no
\* connection out of the pool any more.
C15_TimedOutTakesNothing ==
  [][zombies > 0 => \A i \in 1..Len(pool) :
       (i <= Len(pool') /\ pool'[i].id = pool[i].id /\ pool'[i].inUse /\ ~pool[i].inUse)
         => \E c \in Callers : Acquired(c) /\ callers'[c].conn = pool[i].id]_vars


\* ------------------------------------------------------------------------
\* The pattern cache driven directly: cacheResponsePattern called with any
\* conversation, response and authenticity score, in any order
\* ------------------------------------------------------------------------
MaxPatternCalls == 6

PatternConversations ==
  {<<[role |-> "user", content |-> "zzz"]>>, <<[role |-> "user", content |-> "hello"]>>}
PatternResponses == {"r1p1", "r2p1"}
PatternScores == {80, 90, 95}

CachePattern(messages, response, score) ==
  /\ nWrites < MaxPatternCalls
  /\ nWrites' = nWrites + 1
  /\ LET c == cacheResponsePattern(Cache, generatePattern(messages), response, score, now)
     IN /\ memoryCache' = c.mem
        /\ redisStore' = c.store
        /\ preGenerated' = c.pre
  /\ UNCHANGED <<now, pending, lastSet, lastLookup, nLookups>>
  /\ UNCHANGED notCache

NextPattern ==
  \E messages \in PatternConversations, response \in PatternResponses,
     score \in PatternScores : CachePattern(messages, response, score)

SpecPattern == Init /\ [][NextPattern]_vars

\* a call that finds, for its pattern, the cache entry it is about to write:
\* the last call for the same conversation had the same response and score
RepeatedCall == nWrites' = nWrites + 1 /\ memoryCache' = memoryCache

\* C16: calling cacheResponsePattern a second time with the same
\* conversation, response and score leaves the cache entry and the candidate
\* list of the pattern as the first call left them.
C16_TwiceIsOnce ==
  [][RepeatedCall => preGenerated' = preGenerated]_vars


Candidates(p) == preGenerated[p]

\* the entries of a sequence equal to x, leaving out position skip
Count(seq, x, skip) == Cardinality({i \in 1..Len(seq) : i # skip /\ seq[i] = x})

\* inserting (response, score) into a full list drops one of the lowest
\* scored of the six candidates and keeps five
DropsLowest(old, new, response, score, t) ==
  LET pushed == Append(old, [response |-> response, authenticityScore |-> score,
                             timestamp |-> t])
  IN \E d \in 1..Len(pushed) :
       /\ \A i \in 1..Len(pushed) :
            pushed[i].authenticityScore >= pushed[d].authenticityScore
       /\ Len(new) = MaxPreGenerated
       /\ \A i \in 1..Len(pushed) : Count(new, pushed[i], 0) = Count(pushed, pushed[i], d)

\* C17: every candidate list holds at most 5 candidates, sorted by
\* descending score, all with a score strictly above 0.85; an insertion into
\* a full list drops a candidate with the lowest score.
C17_TopFiveVetted ==
  /\ \A p \in DOMAIN preGenerated :
       /\ Len(Candidates(p)) <= MaxPreGenerated
       /\ \A i \in 1..Len(Candidates(p)) :
            /\ Candidates(p)[i].authenticityScore > PreGenThresholdPct
            /\ i > 1 => Candidates(p)[i - 1].authenticityScore
                          >= Candidates(p)[i].authenticityScore
  /\ \A messages \in PatternConversations, response \in PatternResponses,
        score \in PatternScores :
       LET pattern == generatePattern(messages)
           after == cacheResponsePattern(Cache, pattern, response, score, now).pre
       IN (score > PreGenThresholdPct /\ pattern \in DOMAIN preGenerated
             /\ Len(Candidates(pattern)) = MaxPreGenerated)
            => DropsLowest(Candidates(pattern), after[pattern], response, score, now)

\* a full list whose pattern was last cached with a vetted response that is
\* not among the candidates: the insertion overflowed and dropped it
C17_Witness ==
  \E p \in DOMAIN preGenerated :
    /\ Len(Candidates(p)) = MaxPreGenerated
    /\ MemLive(memoryCache, PatternKey(p), now)
    /\ LET d == CacheData(Cache, PatternKey(p), now)
       IN /\ d.score > PreGenThresholdPct
          /\ \A i \in 1..MaxPreGenerated :
               Candidates(p)[i].authenticityScore > d.score


\* a lookup resumes with an error of the persistent store
FailedLookup == pending # NoPending /\ ~pending.ok /\ pending' = NoPending

\* a set whose SETEX failed: the write is counted, the store is as it was
FailedSet(k) ==
  nWrites' = nWrites + 1 /\ lastSet'[k] # lastSet[k] /\ redisStore' = redisStore

\* a failed lookup answers the keys that were live in the memory tier and
\* reports a miss for the others
AnswersFromMemory ==
  /\ lastLookup'.kind = pending.kind
  /\ DOMAIN lastLookup'.results = DOMAIN pending.hits \cup pending.keys
  /\ \A k \in DOMAIN pending.hits : lastLookup'.results[k] = pending.hits[k]
  /\ \A k \in pending.keys : lastLookup'.results[k] = None

\* the value of the set is readable from the memory tier
ReadableFromMemory(k) ==
  /\ MemLive(memoryCache', k, now)
  /\ memoryCache'[MemIndex(memoryCache', k)].data = lastSet'[k].data

\* C18: an error of the persistent store never fails get, batchGet or set:
\* the lookup answers the keys that were live in the memory tier and reports
\* a miss for the others, and the set leaves its value readable from the
\* memory tier.
C18_StoreErrorsAbsorbed ==
  [][(FailedLookup => AnswersFromMemory)
       /\ (\A k \in Keys : FailedSet(k) => ReadableFromMemory(k))]_vars

\* a lookup reported a miss for a key the persistent store held when the
\* lookup was issued, and the last set of a key is readable from the memory
\* tier but not in the store
C18_Witness ==
  /\ \E k \in Keys :
       /\ lastLookup.kind # "none"
       /\ k \in DOMAIN lastLookup.results
       /\ lastLookup.results[k] = None
       /\ RedisLive(redisStore, k, lastLookup.issuedAt)
       /\ lastSet[k].at < lastLookup.issuedAt
  /\ \E k \in Keys :
       /\ lastSet[k].data # None
       /\ RedisGet(redisStore, k, now) # lastSet[k].data
       /\ MemLive(memoryCache, k, now)
       /\ memoryCache[MemIndex(memoryCache, k)].data = lastSet[k].data


\* ------------------------------------------------------------------------
\* The pool asked for its configured pair and for a pair without
\* configuration, without the timers
\* ------------------------------------------------------------------------
NextUnconfigured ==
  \/ \E c \in Callers, viaExecute \in BOOLEAN : GetUnconfigured(c, viaExecute)
  \/ \E c \in Callers, viaExecute \in BOOLEAN : GetConnection(c, viaExecute)
  \/ \E c \in Callers : CreateFinish(c)
  \/ \E c \in Callers, ok \in BOOLEAN : RequestDone(c, ok)
  \/ \E c \in Callers : Release(c)

SpecUnconfigured == Init /\ [][NextUnconfigured]_vars

\* C19: getConnection and executeRequest for a pair without configuration
\* fail at once with the not-configured error: the caller is not left
\* waiting, no pool, connection or metrics record is created and request()
\* is not invoked.
C19_NotConfiguredFailsClean ==
  [][unconfigured' # unconfigured =>
       /\ unconfigured' = [unconfigured EXCEPT !.rejected = @ + 1]
       /\ unconfigured'.hasPool = FALSE
       /\ unconfigured'.hasMetrics = FALSE
       /\ unconfigured'.created = 0
       /\ unconfigured'.invoked = 0
       /\ callers' = callers
       /\ pool' = pool
       /\ metrics' = metrics
       /\ nextConnId' = nextConnId]_vars

\* the pair without configuration was asked for while the configured pair
\* had a connection in use
C19_Witness ==
  /\ unconfigured.rejected > 0
  /\ \E i \in 1..Len(pool) : pool[i].inUse


\* ------------------------------------------------------------------------
\* The dispatcher called directly, with clearQueues, and provider calls that
\* terminate
\* ------------------------------------------------------------------------
\* clearQueues: pool.queue = [] for every pool; the requests that waited are
\* neither resolved nor rejected
ClearQueues ==
  /\ queue' = <<>>
  /\ UNCHANGED <<sessions, reqs, processing, dispatched, nEnqueued, learned>>
  /\ UNCHANGED <<now, cacheVars, poolVars, predVars, stream, templateService>>

NextClear ==
  \/ \E r \in Reqs, prio \in DirectPriorities, input \in UserInputs :
        DirectRequest(r, prio, input)
  \/ \E r \in Reqs, ok \in BOOLEAN : SingleSettle(r, ok)
  \/ ClearQueues
  \/ \E t \in CacheInstants : CacheTick(t)

\* every provider call terminates
SpecClear ==
  /\ Init
  /\ [][NextClear]_vars
  /\ \A r \in Reqs : WF_vars(\E ok \in BOOLEAN : SingleSettle(r, ok))

\* the dispatcher holds a ProcessingRequest for r whose handle has not been
\* invoked
Unsettled(r) == reqs[r].pc \in {"queued", "single", "racing"}

\* C20: every request for which a ProcessingRequest was created has its
\* resolve or reject invoked eventually, whether it was dispatched at once
\* or waited in the queue, and across calls of clearQueues.
C20_EverySettled ==
  \A r \in Reqs : Unsettled(r) ~> (reqs[r].outcome # "none")


\* ------------------------------------------------------------------------
\* The pool with two tasks holding its connections and two tasks waiting,
\* at instants that set the waiters' intervals out of phase
\* ------------------------------------------------------------------------
NumWaitCallers == 4
WaitCallers == 1..NumWaitCallers
WaiterInstants == {3, 11, 13, 20}

InitWaiters ==
  /\ now = 0
  /\ CacheInit
  /\ pool = <<>>
  /\ metrics = [created |-> 0, reused |-> 0, errors |-> 0]
  /\ callers = [c \in WaitCallers |-> Idle]
  /\ zombies = 0
  /\ nextConnId = 0
  /\ nAcquires = 0
  /\ unconfigured = NoTrace
  /\ PredInit
  /\ DispatchInit
  /\ StreamInit
  /\ TemplateInit

NextWaiters ==
  \/ \E c \in WaitCallers : GetConnection(c, FALSE)
  \/ \E c \in WaitCallers : CreateFinish(c)
  \/ \E c \in WaitCallers : WaiterCheck(c)
  \/ \E c \in WaitCallers : Release(c)
  \/ \E t \in WaiterInstants : PoolTick(t)

SpecWaiters == InitWaiters /\ [][NextWaiters]_vars


\* waiter c leaves the wait with a connection in this step
Served(c) == callers[c].pc = "waiting" /\ callers'[c].pc = "holding"

\* C21: blocked acquires are served in priority-then-arrival order (the pool
\* knows no priorities, so all waiters are of one class): a waiter never
\* obtains a connection while a waiter that arrived earlier is still blocked.
C21_WaitersInArrivalOrder ==
  [][\A c \in DOMAIN callers :
       Served(c) =>
         \A d \in DOMAIN callers :
           callers[d].pc = "waiting" => callers[d].waitStart >= callers[c].waitStart]_vars


\* ------------------------------------------------------------------------
\* The memory tier under a small ceiling: set and memory hits on more keys
\* than the ceiling admits
\* ------------------------------------------------------------------------
SmallCeiling == 5             \* maxMemorySize of the cache checked here
NumEvictKeys == 6
MaxEvictWrites == 7
MaxEvictReads == 2
EvictKeys == 1..NumEvictKeys
EvictInstants == {1, 2}

\* the keys are first written in the order of their numbers
FreshKey(k) == MemIndex(memoryCache, k) = 0 /\ k \notin DOMAIN redisStore
NextFreshKey(k) == FreshKey(k) /\ \A j \in 1..(k - 1) : ~FreshKey(j)

\* set(key, data, 60000) with maxMemorySize = SmallCeiling
EvictSet(k) ==
  /\ nWrites < MaxEvictWrites
  /\ ~FreshKey(k) \/ NextFreshKey(k)
  /\ nWrites' = nWrites + 1
  /\ memoryCache' = SetMemoryAt(memoryCache, k, nWrites + 1, 60000, now, SmallCeiling)
  /\ redisStore' = SetRedis(redisStore, k, nWrites + 1, 60000, now, TRUE)
  /\ UNCHANGED <<now, preGenerated, pending, lastSet, lastLookup, nLookups>>
  /\ UNCHANGED notCache

\* get(key) answered by the memory tier: hits++
EvictRead(k) ==
  /\ nLookups < MaxEvictReads
  /\ MemLive(memoryCache, k, now)
  /\ memoryCache' = MemHit(memoryCache, k)
  /\ nLookups' = nLookups + 1
  /\ UNCHANGED <<now, redisStore, preGenerated, pending, lastSet, lastLookup, nWrites>>
  /\ UNCHANGED notCache

NextEvict ==
  \/ \E k \in EvictKeys : EvictSet(k)
  \/ \E k \in EvictKeys : EvictRead(k)
  \/ \E t \in EvictInstants : CacheTick(t)

SpecEvict == Init /\ [][NextEvict]_vars


MemKeys(mem) == {mem[i].key : i \in 1..Len(mem)}
ZeroHits(mem) == [i \in 1..Len(mem) |-> [mem[i] EXCEPT !.hits = 0]]

\* the set of key k makes the entry count exceed the ceiling
SetOverflows(k) == MemIndex(memoryCache, k) = 0 /\ Len(memoryCache) = SmallCeiling

\* what set(k) evicts: floor(0.2 x ceiling) entries, none newer than a
\* survivor, the same whatever the hit counts are, and not the entry of k
EvictsOldest(k) ==
  LET written == MemSet(memoryCache, k,
                        [data |-> nWrites + 1, timestamp |-> now, ttl |-> 60000, hits |-> 0])
      after == SetMemoryAt(memoryCache, k, nWrites + 1, 60000, now, SmallCeiling)
      evicted == MemKeys(written) \ MemKeys(after)
      unread == SetMemoryAt(ZeroHits(memoryCache), k, nWrites + 1, 60000, now, SmallCeiling)
  IN /\ Cardinality(evicted) = (SmallCeiling * 2) \div 10
     /\ \A i \in 1..Len(after) : after[i] = written[MemIndex(written, after[i].key)]
     /\ \A e \in evicted, x \in MemKeys(after) :
          written[MemIndex(written, e)].timestamp
            <= written[MemIndex(written, x)].timestamp
     /\ MemKeys(unread) = MemKeys(after)
     /\ k \in MemKeys(after)

WornMaxRequests == 25         \* maxRequestsPerConnection of claude-3-opus
WornCounts == {9, 10, 11}
WornErrors == {0, 3, 4}

WornConnection(id, count) ==
  [id |-> id, inUse |-> FALSE, lastUsed |-> 0, created |-> 0,
   requestCount |-> count, maxRequests |-> WornMaxRequests]

\* one or both connections exist and are idle; the first has served count
\* requests, errs requests of the pair have failed so far
InitWorn ==
  /\ now = 0
  /\ CacheInit
  /\ \E count \in WornCounts, errs \in WornErrors, n \in 1..maxConnections :
       /\ pool = SubSeq(<<WornConnection(1, count), WornConnection(2, 0)>>, 1, n)
       /\ metrics = [created |-> n, reused |-> count, errors |-> errs]
       /\ nextConnId = n
  /\ callers = [c \in Callers |-> Idle]
  /\ zombies = 0
  /\ nAcquires = 0
  /\ unconfigured = NoTrace
  /\ PredInit
  /\ DispatchInit
  /\ StreamInit
  /\ TemplateInit

NextWorn ==
  \/ \E c \in Callers : GetConnection(c, TRUE)
  \/ \E c \in Callers : CreateFinish(c)
  \/ \E c \in Callers, ok \in BOOLEAN : RequestDone(c, ok)
  \/ \E c \in Callers : WaiterCheck(c)
  \/ \E t \in PoolInstants : PoolTick(t)

SpecWorn == InitWorn /\ [][NextWorn]_vars

\* executeRequest of caller c returns or throws in this step
ExecuteFinishes(c) ==
  callers[c].pc = "holding" /\ callers[c].viaExecute /\ callers'[c].pc = "idle"

\* the connection has served more than 10 requests and the errors of its
\* pair exceed 30 percent of them
OverErrorRate(conn, errs) ==
  conn.requestCount > ErrorMinRequests /\ errs * 100 > conn.requestCount * ErrorRatePct

\* C23: when executeRequest finishes on a connection of the pool, the
\* connection has been removed if and only if it has served more than 10
\* requests with an error rate above 30 percent, for a successful and for a
\* failed call alike.
C23_EvictedIffOverErrorRate ==
  [][\A c \in Callers :
       (ExecuteFinishes(c) /\ PoolIndex(pool, callers[c].conn) # 0) =>
         (OverErrorRate(pool[PoolIndex(pool, callers[c].conn)], metrics'.errors)
            <=> PoolIndex(pool', callers[c].conn) = 0)]_vars


\* the served-request count of connection id in pool p, 0 before it exists
CountOf(p, id) == IF PoolIndex(p, id) = 0 THEN 0 ELSE p[PoolIndex(p, id)].requestCount
BusyIn(p, id) == PoolIndex(p, id) # 0 /\ p[PoolIndex(p, id)].inUse

\* executeRequest obtains its connection: busy, counted once
CountedOnAcquire(c) ==
  (Acquired(c) /\ callers'[c].viaExecute) =>
    /\ BusyIn(pool', callers'[c].conn)
    /\ CountOf(pool', callers'[c].conn) = CountOf(pool, callers'[c].conn) + 1

\* while request() runs the connection stays busy and its count stays
HeldUntouched(c) ==
  (/\ callers[c].pc = "holding" /\ callers[c].viaExecute /\ callers'[c].pc = "holding"
   /\ PoolIndex(pool, callers[c].conn) # 0 /\ PoolIndex(pool', callers[c].conn) # 0) =>
    /\ BusyIn(pool', callers[c].conn)
    /\ CountOf(pool', callers[c].conn) = CountOf(pool, callers[c].conn)

\* executeRequest returns or throws: not busy, the count as it was
FreeOnFinish(c) ==
  (ExecuteFinishes(c) /\ PoolIndex(pool', callers[c].conn) # 0) =>
    /\ ~BusyIn(pool', callers[c].conn)
    /\ CountOf(pool', callers[c].conn) = CountOf(pool, callers[c].conn)

\* C24: every executeRequest that obtained a connection releases it: when
\* it returns or throws, the connection is not busy and has served exactly
\* one request more than before the call, whether request() succeeded or
\* failed.
C24_ReleasedAndCountedOnce ==
  [][\A c \in Callers : CountedOnAcquire(c) /\ HeldUntouched(c) /\ FreeOnFinish(c)]_vars

\* executeRequest calls have finished, one of them with an error, and left
\* a connection idle that has served requests
C24_Witness ==
  /\ metrics.errors > 0
  /\ metrics.reused > 0
  /\ \E i \in 1..Len(pool) : ~pool[i].inUse /\ pool[i].requestCount = 2
  /\ \A c \in Callers : callers[c].pc = "idle"

\* ------------------------------------------------------------------------
\* The stream optimizer on its own
\* ------------------------------------------------------------------------

AdaptLatencies == {100, 101}
AdaptThroughputs == {999, 1000}

InitStream ==
  /\ now = 0
  /\ CacheInit
  /\ PoolInit
  /\ PredInit
  /\ DispatchInit
  /\ \E config \in StreamConfigs : stream = NewStream(config)
  /\ TemplateInit

NextStream ==
  \/ \E t \in Transforms : ProcessChunk(t)
  \/ BatchTimerFires
  \/ \E t \in Transforms : StreamEnds(t)
  \/ \E latency \in AdaptLatencies, throughput \in AdaptThroughputs : AdaptConfig(latency, throughput)
  \/ StreamTick

SpecStream == InitStream /\ [][NextStream]_vars

Buffered == Len(stream.buffer) > 0

\* a buffer that holds fragments has its timer armed, holds fewer than
\* batchSize fragments, and its first fragment is no older than batchTimeout
BufferWithinConfig ==
  /\ stream.timerArmed
  /\ Len(stream.buffer) < stream.config.batchSize
  /\ now - stream.buffer[1] <= stream.config.batchTimeout

\* C25 as stated, batchSize and batchTimeout being the configured values:
\* with batching enabled, whenever the buffer holds a fragment a flush timer
\* is armed, the buffer holds fewer than batchSize fragments, and no
\* fragment has been in it for longer than batchTimeout.
C25_FlushedBySizeOrTimeout ==
  (stream.config.enableBatching /\ Buffered) => BufferWithinConfig

\* the first fragment of a batch arms the timer, batchTimeout from now
FirstFragmentArms ==
  (Len(stream.buffer) = 0 /\ Len(stream'.buffer) > 0) =>
    /\ stream'.timerArmed
    /\ stream'.timerAt = now + stream.config.batchTimeout

\* while the batch grows its timer stays as it was armed
TimerKept ==
  (Buffered /\ Len(stream'.buffer) > 0) =>
    /\ stream'.timerArmed
    /\ stream'.timerAt = stream.timerAt

\* a fragment that brings the buffer to the batchSize configured at that
\* moment flushes it
PushBelowBatchSize ==
  Len(stream'.buffer) > Len(stream.buffer) =>
    Len(stream'.buffer) < stream.config.batchSize

\* the timer of a batch has not expired while the batch is buffered
TimerNotOverdue == Buffered => (stream.timerArmed /\ now <= stream.timerAt)

\* C25, with the values in force when they are read: with batching enabled,
\* the first fragment of a batch arms a timer batchTimeout (as configured
\* at that moment) ahead, the timer stays armed and unchanged while the
\* buffer holds a fragment, a fragment that brings the buffer to the
\* batchSize configured when it is added flushes it at once, and the buffer
\* is flushed when that timer expires at the latest.
C25_FlushedBySizeOrArmedTimeout ==
  [][/\ FirstFragmentArms
     /\ TimerKept
     /\ PushBelowBatchSize
     /\ TimerNotOverdue']_vars

\* two fragments wait under the timer of the first, a batch before was
\* flushed by the timer, and the configuration has been adapted meanwhile
C25_Witness ==
  /\ stream.config.enableBatching
  /\ Len(stream.buffer) >= 2
  /\ stream.timerArmed
  /\ stream.timerAt = stream.buffer[1] + 3
  /\ stream.lastFlush.kind = "timer"
  /\ stream.nAdapt > 0

\* this step is adaptConfig({latency, throughput})
Adapts(latency, throughput) ==
  /\ stream'.nAdapt = stream.nAdapt + 1
  /\ stream'.config = adaptConfig(stream.config, latency, throughput)

\* adaptConfig for high latency and adequate throughput lowers neither
\* batchSize nor bufferSize
HighLatencyNeverLowers(latency, throughput) ==
  (latency > LatencyLimit /\ throughput >= ThroughputLimit) =>
    /\ stream'.config.batchSize >= stream.config.batchSize
    /\ stream'.config.bufferSize >= stream.config.bufferSize

\* adaptConfig for low throughput and acceptable latency raises neither
\* batchSize nor batchTimeout
LowThroughputNeverRaises(latency, throughput) ==
  (throughput < ThroughputLimit /\ latency <= LatencyLimit) =>
    /\ stream'.config.batchSize <= stream.config.batchSize
    /\ stream'.config.batchTimeout <= stream.config.batchTimeout

\* C26: for every configuration the optimizer is constructed with or has
\* reached, the server's included, adaptConfig with high latency and
\* adequate throughput never decreases batchSize or bufferSize, and
\* adaptConfig with low throughput and latency at most 100 never increases
\* batchSize or batchTimeout.
C26_AdaptNeverAgainstDirection ==
  [][\A latency \in AdaptLatencies, throughput \in AdaptThroughputs :
       Adapts(latency, throughput) =>
         (HighLatencyNeverLowers(latency, throughput)
            /\ LowThroughputNeverRaises(latency, throughput))]_vars

\* ------------------------------------------------------------------------
\* One model learning from many turns
\* ------------------------------------------------------------------------

MaxDeepLearn == 7

\* the turns all match the help model and predicted one of its candidates;
\* the answer given has the words of the prediction or none of them
NextDeepLearn ==
  \E i \in 1..3, pw \in {{1}, {2}} :
     LearnUpTo(MaxDeepLearn, InHelpMe, i, pw, {1})

SpecDeepLearn == Init /\ [][NextDeepLearn]_vars

ProbabilityFloor == Scale \div 20
ProbabilityCeiling == Scale \div 2

\* C27: in every reachable state of a prediction model, initially and
\* after any sequence of learn calls, every candidate probability lies
\* within [0.05, 0.5].
C27_ProbabilitiesWithinBounds ==
  \A m \in 1..Len(models) :
    \A i \in 1..Len(models[m].probability) :
      /\ models[m].probability[i] >= ProbabilityFloor
      /\ models[m].probability[i] <= ProbabilityCeiling

\* ------------------------------------------------------------------------
\* The template matcher with rules added and re-prioritised
\* ------------------------------------------------------------------------

MatchInputs ==
  { <<"h", "e", "y", " ", "c", "o", "o", "l">>,
    <<"H", "e", "l", "p", " ", "m", "e">>,
    <<"w", "o", "w", " ", "c", "o", "d", "e">>,
    <<"z", "z", "z">> }

\* a caller's rule for inputs that mention code
CustomTemplate(priority) ==
  [id |-> "custom_1", text |-> "<custom_1>", anchored |-> FALSE, priority |-> priority,
   alternatives |-> {<<"c", "o", "d", "e">>}]

CustomPriorities == {0, 5, 9}
UpdatedTemplates == {<<"greeting", "greeting_1">>, <<"casual", "casual_1">>,
                     <<"technical", "technical_1">>, <<"casual", "greeting_1">>}
CustomCategories == {"casual", "technical", "custom"}

NextTemplates ==
  \/ \E input \in MatchInputs : GetFastResponse(input)
  \/ \E u \in UpdatedTemplates, priority \in CustomPriorities :
       UpdateTemplate(u[1], u[2], priority)
  \/ \E category \in CustomCategories, priority \in CustomPriorities :
       AddCustomTemplate(category, CustomTemplate(priority))

SpecTemplates == Init /\ [][NextTemplates]_vars

\* this step is a getFastResponse that reached the template rules
MatchesByTemplate ==
  /\ templateService'.nMatches = templateService.nMatches + 1
  /\ templateService'.last.phase = "template"

\* C28: in the second phase of template matching the rule used has the
\* smallest priority number of all rules, of any category, that match the
\* input, also after addCustomTemplate and updateTemplate.
C28_BestPriorityOverAllRules ==
  [][MatchesByTemplate =>
       \A c \in 1..Len(templateService.templates) :
         \A i \in 1..Len(templateService.templates[c].list) :
           TemplateTest(templateService.templates[c].list[i], templateService'.last.input)
             => templateService'.last.priority
                  <= templateService.templates[c].list[i].priority]_vars

\* a queue that holds requests means the capacity is in use
QueueOnlyWhenFull == queue # <<>> => Cardinality(processing) >= maxConcurrent

\* the number of queued requests a finish of request r can start
FreeSlots(r) ==
  Min(Len(queue), Max(0, maxConcurrent - Cardinality(processing \ {r})))

\* request r, in flight, finishes in this step
Finishes(r) == r \in processing /\ reqs[r].pc # "done" /\ reqs'[r].pc \in {"post", "done"}

\* the finish of r starts the first FreeSlots(r) queued requests, in order
FinishStartsQueued(r) ==
  Finishes(r) =>
    /\ queue' = SubSeq(queue, FreeSlots(r) + 1, Len(queue))
    /\ processing' = (processing \ {r}) \cup {queue[i].id : i \in 1..FreeSlots(r)}
    /\ \A i \in 1..FreeSlots(r) : reqs'[queue[i].id].pc \in {"single", "racing"}

\* C29: between dispatcher steps the queue of the provider is non-empty
\* only if its in-flight count is at least maxConcurrent, and a finishing
\* request starts queued requests in the same step until the capacity is
\* full or the queue is empty.
C29_WorkConserving ==
  [][/\ QueueOnlyWhenFull'
     /\ \A r \in Reqs : FinishStartsQueued(r)]_vars

\* a request that waited in the queue was started by the finish of another
C29_Witness ==
  /\ dispatched # <<>>
  /\ queue = <<>>
  /\ \E r \in Reqs : r \in processing /\ reqs[r].pc = "single"
  /\ \E r \in Reqs : reqs[r].pc \in {"post", "done"}

\* C30: in every reachable state the number of requests in flight for the
\* provider, the size of its processing set, does not exceed its
\* maxConcurrent, whatever priorities are submitted.
C30_InFlightWithinCapacity == Cardinality(processing) <= maxConcurrent

\* connection id is held by a caller between acquire and release
HeldByCaller(id) ==
  \E c \in DOMAIN callers : callers[c].pc = "holding" /\ callers[c].conn = id

\* C31: a blocked acquire that failed with the timeout error has no later
\* effect on the pool: every connection that is marked busy is held by a
\* caller that will release it.
C31_BusyMeansHeld ==
  \A i \in 1..Len(pool) : pool[i].inUse => HeldByCaller(pool[i].id)

\* the get of key k that waited for the persistent tier resumes in this step
ResumesGet(k) ==
  pending.kind = "get" /\ k \in pending.keys /\ pending' = NoPending

\* set(k, v2) was called while that get was waiting, and v2 has not expired
SetWhileWaiting(k) ==
  /\ lastSet[k].data # None
  /\ lastSet[k].at >= pending.issuedAt
  /\ now < lastSet[k].at + lastSet[k].ttl

\* C32: a get that suspends on the persistent tier never overwrites a newer
\* memory-tier value: if set(k, v2) is called while a get(k) waits for the
\* persistent tier, then after both have completed the memory tier holds v2,
\* which the following gets return.
C32_GetKeepsNewerValue ==
  [][\A k \in Keys :
       (ResumesGet(k) /\ SetWhileWaiting(k)) =>
         /\ MemLive(memoryCache', k, now)
         /\ memoryCache'[MemIndex(memoryCache', k)].data = lastSet[k].data]_vars

\* a run of the maintenance sweep: only cleanup() changes the pool and leaves
\* the callers, the rejected waiters and the metrics alone
SweepRuns ==
  /\ NoCreation
  /\ nextConnId > 0
  /\ pool' = poolCleanup(pool, nextConnId + 1, now)
  /\ UNCHANGED <<now, metrics, callers, zombies, nAcquires>>

\* C33: the maintenance sweep never removes a busy connection, one that is
\* held by a caller between acquire and release: every such connection is
\* still in the pool after the sweep.
C33_SweepKeepsBusy ==
  [][SweepRuns =>
       \A i \in 1..Len(pool) :
         (pool[i].inUse /\ HeldByCaller(pool[i].id)) =>
           PoolIndex(pool', pool[i].id) # 0]_vars

\* ------------------------------------------------------------------------
\* clearPool(provider, model) of the configured pair
\* ------------------------------------------------------------------------
\* for (const conn of pool) this.removeConnection(conn): the array iterator
\* reads pool[i] for i = 0, 1, ... and compares i with the length of the
\* array as it is at that moment, while removeConnection splices the array
RECURSIVE ClearFrom(_, _)
ClearFrom(p, i) ==
  IF i > Len(p) THEN p
  ELSE ClearFrom(removeConnection(p, p[i].id), i + 1)

clearPool(p) == ClearFrom(p, 1)

\* clearPool has no await: it runs within one macrotask
ClearPool ==
  /\ NoCreation
  /\ Len(pool) > 0
  /\ pool' = clearPool(pool)
  /\ UNCHANGED <<now, metrics, callers, zombies, nextConnId, nAcquires>>
  /\ UNCHANGED <<unconfigured, notPool>>

\* the callers use getConnection and releaseConnection directly
NextClearPool ==
  \/ \E c \in Callers : GetConnection(c, FALSE)
  \/ \E c \in Callers : CreateFinish(c)
  \/ \E c \in Callers : WaiterCheck(c)
  \/ \E c \in Callers : Release(c)
  \/ ClearPool
  \/ \E t \in PoolInstants : PoolTick(t)

SpecClearPool == Init /\ [][NextClearPool]_vars

\* clearPool of the pair returns in this step
ClearPoolReturns ==
  /\ Len(pool) > 0
  /\ pool' = clearPool(pool)
  /\ UNCHANGED <<now, metrics, callers, zombies, nextConnId, nAcquires>>

\* C34: after clearPool(provider, model) returns, the pool of the pair holds
\* no connection, whatever number of connections it held before the call.
C34_PoolEmptyAfterClear ==
  [][ClearPoolReturns => Len(pool') = 0]_vars

\* ------------------------------------------------------------------------
\* The memory tier under the small ceiling with reads that miss it: get and
\* batchGet repopulate it from the persistent tier
\* ------------------------------------------------------------------------
CeilingReadKeys == {1, 2}
CeilingBatches == {{1, 2}}
CeilingInstants == {60001}    \* the entries written at 0 have expired

NextCeiling ==
  \/ \E k \in EvictKeys : EvictSet(k)
  \/ \E k \in CeilingReadKeys : GetSuspend(k, TRUE)
  \/ \E ks \in CeilingBatches : BatchGetStart(ks, TRUE)
  \/ LookupResume
  \/ Sweep
  \/ \E t \in CeilingInstants : CacheTick(t)

SpecCeiling == Init /\ [][NextCeiling]_vars

\* C35: once the set, get, batchGet and sweep operations have completed, the
\* memory tier holds no more entries than its ceiling, the entries that get
\* and batchGet repopulated included.
C35_MemoryWithinCeiling ==
  pending = NoPending => Len(memoryCache) <= SmallCeiling

\* C36: the batching transform emits every input fragment exactly once and in
\* arrival order, none dropped, duplicated or reordered: a batch a transform
\* emits is made of the fragments that transform received, so the batches it
\* has emitted after its final flush concatenate to its own input.
C36_EmitsOwnFragments ==
  stream.lastFlush.kind # "none" =>
    \A i \in 1..Len(stream.lastFlush.owners) :
      stream.lastFlush.owners[i] = stream.lastFlush.by

\* C37: every completion callback handed to a transform is invoked, the one
\* of the end-of-input flush included: a transform whose input has ended has
\* had its end-of-input callback called and so finishes, also when the
\* buffer was empty at the end of its input.
C37_EndedMeansFinished ==
  stream.ended \subseteq stream.finished

\* the prediction was good: similarity > 0.8
GoodPrediction(predictedWords, actualWords) ==
  calculateSimilarity(predictedWords, actualWords) * 10 > 8 * Scale

\* a learn call for an input of the help model whose prediction was its
\* candidate i, with the words predicted and the words {1} of the answer
LearnsFrom(i, predictedWords) ==
  LET m == MatchedModel[InHelpMe]
      similarity == calculateSimilarity(predictedWords, {1})
  IN /\ nLearn' = nLearn + 1
     /\ models' = [models EXCEPT
           ![m].accuracy = UpdateAccuracy(@, similarity),
           ![m].probability = updateResponseProbabilities(@, i, similarity)]

\* the probability of candidate i does not move against the prediction
MovesRightWay(i, predictedWords) ==
  LET m == MatchedModel[InHelpMe]
  IN IF GoodPrediction(predictedWords, {1})
       THEN models'[m].probability[i] >= models[m].probability[i]
       ELSE models'[m].probability[i] <= models[m].probability[i]

\* C38: a learn call never moves the matched candidate the wrong way: after
\* a good prediction its probability, renormalized, is not lower than before
\* the call, and after a poor prediction it is not higher, from every
\* reachable model state.
C38_LearnMovesRightWay ==
  [][\A i \in 1..3, predictedWords \in {{1}, {2}} :
       LearnsFrom(i, predictedWords) => MovesRightWay(i, predictedWords)]_vars

\* the text and the confidence of a prediction are defined: an undefined
\* cached.response is written "" and an undefined cached.confidence 0 in the
\* model; the candidate texts are not empty and a sampled candidate has a
\* probability above 0
DefinedPrediction(prediction) ==
  prediction.text # "" /\ prediction.confidence # 0

\* C39: predictResponse returns either no prediction or a prediction whose
\* text and confidence are both defined, also after the dispatcher's quick
\* prediction path stored an entry for the same input under the pred: key.
C39_PredictionDefined ==
  \A r \in Reqs :
    reqs[r].prediction.exists => DefinedPrediction(reqs[r].prediction)

====
